---- MODULE Spec2Model ----
(***************************************************************************)
(* redflake: a RESP2/RESP3 server that issues Snowflake-style 64-bit IDs.  *)
(*                                                                         *)
(* The model covers the ID generator (snowflake.rs), the command layer     *)
(* (command.rs) and the session loop (lib.rs).  Byte strings are sequences *)
(* of byte values, frames are records [tag, val].                          *)
(***************************************************************************)
EXTENDS Integers, Sequences, FiniteSets, TLC

(***************************************************************************)
(* Bounds of the model.                                                    *)
(***************************************************************************)
\* Width of the timestamp field.  The source packs a 44-bit timestamp above
\* 20 low bits into a 64-bit word; the model keeps the 20 low bits at their
\* real width and scales the timestamp field (and with it the word).
TsBits == 2
\* Number of concurrently running sessions.
NSessions == 2
\* Number of request frames a session reads before the peer stops sending.
MaxReq == 2
\* The configured max-clients (1024 unless given), scaled.
MaxClients == 2

(***************************************************************************)
(* Program constants.                                                      *)
(***************************************************************************)
MAX_SEQ == 4095
TimestampShift == 20
MachineShift == 12
U8_MAX == 255
U16_MODULUS == 65536
BUFFER_SIZE == 128

WordBits == TsBits + TimestampShift
WordModulus == 2 ^ WordBits

\* SystemTime::now() - EPOCH in milliseconds: a positive value of less than
\* 43 of the 44 timestamp bits (the wall clock reaches 2^43 ms after the
\* epoch of 2000-01-01 in the year 2278); scaled with TsBits.
ClockMax == 2 ^ (TsBits - 1) - 1
ClockRange == 0 .. ClockMax

Sessions == 1 .. NSessions

\* The tasks the accept loop can spawn: one more than there are permits.
Tasks == 1 .. MaxClients + 1

(***************************************************************************)
(* Byte strings of the source.                                             *)
(***************************************************************************)
STR_OK == <<79, 75>>  \* "OK"
STR_auth == <<97, 117, 116, 104>>  \* "auth"
STR_client == <<99, 108, 105, 101, 110, 116>>  \* "client"
STR_hello == <<104, 101, 108, 108, 111>>  \* "hello"
STR_next == <<110, 101, 120, 116>>  \* "next"
STR_select == <<115, 101, 108, 101, 99, 116>>  \* "select"
ERR_PREFIX == <<69, 82, 82, 32>>  \* "ERR "
MSG_UNKNOWN == <<85, 110, 107, 110, 111, 119, 110, 32, 99, 111, 109, 109, 97, 110, 100>>  \* "Unknown command"
MSG_NOT_INT == <<80, 114, 111, 116, 111, 99, 111, 108, 32, 118, 101, 114, 115, 105, 111, 110, 32, 105, 115, 32, 110, 111, 116, 32, 97, 110, 32, 105, 110, 116, 101, 103, 101, 114, 32, 111, 114, 32, 111, 117, 116, 32, 111, 102, 32, 114, 97, 110, 103, 101>>  \* "Protocol version is not an integer or out of range"
MSG_UNSUPPORTED == <<85, 110, 115, 117, 112, 112, 111, 114, 116, 101, 100, 32, 112, 114, 111, 116, 111, 99, 111, 108, 32, 118, 101, 114, 115, 105, 111, 110>>  \* "Unsupported protocol version"
MSG_CLOCK == <<67, 108, 111, 99, 107, 32, 109, 111, 118, 101, 100, 32, 98, 97, 99, 107, 119, 97, 114, 100, 115>>  \* "Clock moved backwards"
STR_server == <<115, 101, 114, 118, 101, 114>>  \* "server"
STR_version == <<118, 101, 114, 115, 105, 111, 110>>  \* "version"
STR_proto == <<112, 114, 111, 116, 111>>  \* "proto"
CARGO_PKG_NAME == <<114, 101, 100, 102, 108, 97, 107, 101>>  \* "redflake"
CARGO_PKG_VERSION == <<48, 46, 49, 46, 48>>  \* "0.1.0"

(***************************************************************************)
(* Frames (frame.rs, enum Frame).                                          *)
(***************************************************************************)
SimpleString(s) == [tag |-> "SimpleString", val |-> s]
SimpleError(s) == [tag |-> "SimpleError", val |-> s]
Integer(i) == [tag |-> "Integer", val |-> i]
BulkString(b) == [tag |-> "BulkString", val |-> b]
Array(frames) == [tag |-> "Array", val |-> frames]
Map(items) == [tag |-> "Map", val |-> items]

\* The absence of a frame (Option::None).
NoFrame == [tag |-> "None", val |-> <<>>]

(***************************************************************************)
(* Machine arithmetic.                                                     *)
(***************************************************************************)
\* The bitwise operations, bit by bit from the lowest, on natural numbers.
BitOrOf[x \in Nat, y \in Nat] ==
    IF x = 0 THEN y
    ELSE IF y = 0 THEN x
    ELSE 2 * BitOrOf[x \div 2, y \div 2] + (IF x % 2 = 1 \/ y % 2 = 1 THEN 1 ELSE 0)

BitAndOf[x \in Nat, y \in Nat] ==
    IF x = 0 \/ y = 0 THEN 0
    ELSE 2 * BitAndOf[x \div 2, y \div 2] + (IF x % 2 = 1 /\ y % 2 = 1 THEN 1 ELSE 0)

\* a | b
BitOr(a, b) == BitOrOf[a, b]

\* a & b
BitAnd(a, b) == BitAndOf[a, b]

\* A value as the unsigned word (x as u64).
AsUnsigned(x) == x % WordModulus

\* An unsigned word as the signed word (x as i64).
AsSigned(u) == IF u >= WordModulus \div 2 THEN u - WordModulus ELSE u

(***************************************************************************)
(* snowflake.rs: SnowflakeId and its conversions.                          *)
(***************************************************************************)
\* impl From<i64> for SnowflakeId
SnowflakeIdFrom(id) ==
    [timestamp |-> AsUnsigned(id \div (2 ^ TimestampShift)),
     machine   |-> (id \div (2 ^ MachineShift)) % (U8_MAX + 1),
     sequence  |-> BitAnd(id % U16_MODULUS, MAX_SEQ)]

\* I64From with the machine ID shifted to the wrong place.
I64FromMachineShift8(sf) ==
    AsSigned(BitOr(BitOr(AsUnsigned(sf.timestamp * (2 ^ TimestampShift)),
                         sf.machine * (2 ^ 8)),
                   sf.sequence))

\* impl From<&SnowflakeId> for i64
I64From(sf) ==
    AsSigned(BitOr(BitOr(AsUnsigned(sf.timestamp * (2 ^ TimestampShift)),
                         sf.machine * (2 ^ MachineShift)),
                   sf.sequence))

\* NextIdCandidate without the increment of the sequence within a millisecond.
NextIdCandidateSameSeq(last_id, now, m) ==
    LET id == SnowflakeIdFrom(last_id) IN
    IF now < id.timestamp
    THEN [kind |-> "Err", next_id |-> 0]
    ELSE IF now = id.timestamp /\ id.sequence + 1 > MAX_SEQ
    THEN [kind |-> "Spin", next_id |-> 0]
    ELSE [kind |-> "Try",
          next_id |-> I64From([timestamp |-> now,
                               machine   |-> m,
                               sequence  |-> IF now = id.timestamp
                                             THEN id.sequence
                                             ELSE 0])]

\* NextIdCandidate without the check for a clock that moved backwards.
NextIdCandidateNoRegressCheck(last_id, now, m) ==
    LET id == SnowflakeIdFrom(last_id) IN
    IF now = id.timestamp /\ id.sequence + 1 > MAX_SEQ
    THEN [kind |-> "Spin", next_id |-> 0]
    ELSE [kind |-> "Try",
          next_id |-> I64From([timestamp |-> now,
                               machine   |-> m,
                               sequence  |-> IF now = id.timestamp
                                             THEN id.sequence + 1
                                             ELSE 0])]

\* NextIdCandidate without the wait for the next millisecond when the
\* sequence is used up.
NextIdCandidateNoSpin(last_id, now, m) ==
    LET id == SnowflakeIdFrom(last_id) IN
    IF now < id.timestamp
    THEN [kind |-> "Err", next_id |-> 0]
    ELSE [kind |-> "Try",
          next_id |-> I64From([timestamp |-> now,
                               machine   |-> m,
                               sequence  |-> IF now = id.timestamp
                                             THEN id.sequence + 1
                                             ELSE 0])]

\* One pass of the loop body of next_id between the clock read and the
\* compare-and-set: what the pass decides from the loaded cell value, the
\* clock reading and the machine ID.
\*   Err : return Err("Clock moved backwards")
\*   Spin: sequence exhausted in this millisecond, spin_loop() and continue
\*   Try : attempt the compare-and-set with next_id
NextIdCandidate(last_id, now, m) ==
    LET id == SnowflakeIdFrom(last_id) IN
    IF now < id.timestamp
    THEN [kind |-> "Err", next_id |-> 0]
    ELSE IF now = id.timestamp /\ id.sequence + 1 > MAX_SEQ
    THEN [kind |-> "Spin", next_id |-> 0]
    ELSE [kind |-> "Try",
          next_id |-> I64From([timestamp |-> now,
                               machine   |-> m,
                               sequence  |-> IF now = id.timestamp
                                             THEN id.sequence + 1
                                             ELSE 0])]

\* A store in place of the compare-and-set.
CompareExchangeBlind(current, expected, spurious) == ~spurious

\* A compare-and-set that never succeeds.
CompareExchangeNever(current, expected, spurious) == FALSE

\* LAST_ID.compare_exchange_weak(last_id, next_id, ..): succeeds only when the
\* cell still holds the expected value, and may fail spuriously even then.
CompareExchangeWeak(current, expected, spurious) ==
    current = expected /\ ~spurious

(***************************************************************************)
(* frame.rs: text and number extraction from binary.                       *)
(***************************************************************************)
IsCont(b, i) == i <= Len(b) /\ b[i] >= 128 /\ b[i] <= 191

\* str::from_utf8(v).is_ok(): v from position i on is well-formed UTF-8.
\* A run of ASCII bytes up to the end is well-formed as a whole.
RECURSIVE Utf8From(_, _)
Utf8From(b, i) ==
    IF \A k \in i .. Len(b) : b[k] <= 127 THEN TRUE
    ELSE IF b[i] <= 127 THEN Utf8From(b, i + 1)
    ELSE IF b[i] >= 194 /\ b[i] <= 223
    THEN IsCont(b, i + 1) /\ Utf8From(b, i + 2)
    ELSE IF b[i] >= 224 /\ b[i] <= 239
    THEN /\ IsCont(b, i + 1) /\ IsCont(b, i + 2)
         /\ (b[i] = 224 => b[i + 1] >= 160)
         /\ (b[i] = 237 => b[i + 1] <= 159)
         /\ Utf8From(b, i + 3)
    ELSE IF b[i] >= 240 /\ b[i] <= 244
    THEN /\ IsCont(b, i + 1) /\ IsCont(b, i + 2) /\ IsCont(b, i + 3)
         /\ (b[i] = 240 => b[i + 1] >= 144)
         /\ (b[i] = 244 => b[i + 1] <= 143)
         /\ Utf8From(b, i + 4)
    ELSE FALSE

\* string_from_binary(v).is_ok(); the text, when it is, has the bytes of v.
string_from_binary_ok(v) == Utf8From(v, 1)

IsDigit(c) == c >= 48 /\ c <= 57

\* The accumulation loop of u8::from_str over the digits from position i:
\* the value, or -1 on an invalid digit or on overflow past u8::MAX.
RECURSIVE ParseDigitsU8(_, _, _)
ParseDigitsU8(v, i, acc) ==
    IF i > Len(v) THEN acc
    ELSE IF ~IsDigit(v[i]) THEN -1
    ELSE LET r == acc * 10 + (v[i] - 48) IN
         IF r > U8_MAX THEN -1 ELSE ParseDigitsU8(v, i + 1, r)

\* number_from_binary::<u8>(v): the number, or -1 for Err(InvalidData).
\* u8::from_str accepts an optional leading '+' and then at least one digit.
number_from_binary_u8(v) ==
    IF ~Utf8From(v, 1) \/ Len(v) = 0 THEN -1
    ELSE IF v[1] = 43
    THEN IF Len(v) = 1 THEN -1 ELSE ParseDigitsU8(v, 2, 0)
    ELSE ParseDigitsU8(v, 1, 0)

\* str::to_ascii_lowercase
to_ascii_lowercase(v) ==
    [i \in 1 .. Len(v) |-> IF v[i] >= 65 /\ v[i] <= 90 THEN v[i] + 32 ELSE v[i]]

(***************************************************************************)
(* frame.rs: Frame::as_bytes.                                              *)
(***************************************************************************)
TERMINATOR == <<13, 10>>  \* b"\r\n"

\* The decimal digits of a natural number.
RECURSIVE DigitsOf(_)
DigitsOf(n) ==
    IF n < 10 THEN <<48 + n>> ELSE Append(DigitsOf(n \div 10), 48 + (n % 10))

\* i64::to_string without the sign.
I64ToStringUnsigned(i) == DigitsOf(IF i < 0 THEN -i ELSE i)

\* i64::to_string
I64ToString(i) == IF i < 0 THEN <<45>> \o DigitsOf(-i) ELSE DigitsOf(i)

\* usize::to_string
UsizeToString(n) == DigitsOf(n)

RECURSIVE as_bytes(_)
RECURSIVE ArrayBytes(_, _)
RECURSIVE MapBytes(_, _)

\* The loop "for val in vals" of the Array arm, from element i on.
ArrayBytes(vals, i) ==
    IF i > Len(vals) THEN <<>>
    ELSE as_bytes(vals[i]) \o ArrayBytes(vals, i + 1)

\* The loop "for (key, val) in items" of the Map arm, from item i on.
MapBytes(items, i) ==
    IF i > Len(items) THEN <<>>
    ELSE as_bytes(items[i][1]) \o as_bytes(items[i][2]) \o MapBytes(items, i + 1)

\* Frame::as_bytes
as_bytes(f) ==
    CASE f.tag = "SimpleString" -> <<43>> \o f.val \o TERMINATOR
      [] f.tag = "SimpleError" -> <<45>> \o f.val \o TERMINATOR
      [] f.tag = "Integer" -> <<58>> \o I64ToString(f.val) \o TERMINATOR
      [] f.tag = "BulkString" ->
             <<36>> \o UsizeToString(Len(f.val)) \o TERMINATOR \o f.val \o TERMINATOR
      [] f.tag = "Array" ->
             <<42>> \o UsizeToString(Len(f.val)) \o TERMINATOR \o ArrayBytes(f.val, 1)
      [] f.tag = "Map" ->
             <<37>> \o UsizeToString(Len(f.val)) \o TERMINATOR \o MapBytes(f.val, 1)

(***************************************************************************)
(* frame.rs: Frame::parse.  A cursor position is the number of bytes       *)
(* before it; a result is [kind, val, pos] with kind "Ok", "NotFound" or   *)
(* "InvalidData", val the value read and pos the cursor after the read.    *)
(***************************************************************************)
\* The largest value of the integer types, scaled to the integers of the
\* model checker; the numbers among the inputs stay far below either.
I64_MAX == 2147483647
USIZE_MAX == 2147483647

ParseOk(val, pos) == [kind |-> "Ok", val |-> val, pos |-> pos]

ParseErr(kind) == [kind |-> kind, val |-> <<>>, pos |-> 0]

\* The accumulation loop of FromStr for an integer type with largest value
\* max, over the digits from position i: the value, or -1 on an invalid digit
\* or on overflow.
RECURSIVE ParseDigits(_, _, _, _)
ParseDigits(v, i, acc, max) ==
    IF i > Len(v) THEN acc
    ELSE IF ~IsDigit(v[i]) THEN -1
    ELSE LET d == v[i] - 48 IN
         IF acc > (max - d) \div 10 THEN -1
         ELSE ParseDigits(v, i + 1, acc * 10 + d, max)

\* number_from_binary::<usize>(v): the number, or -1 for Err(InvalidData).
\* usize::from_str accepts an optional leading '+' and then at least one digit.
number_from_binary_usize(v) ==
    IF ~Utf8From(v, 1) \/ Len(v) = 0 THEN -1
    ELSE IF v[1] = 43
    THEN IF Len(v) = 1 THEN -1 ELSE ParseDigits(v, 2, 0, USIZE_MAX)
    ELSE ParseDigits(v, 1, 0, USIZE_MAX)

\* number_from_binary::<i64>(v) as [ok, val]; ok FALSE for Err(InvalidData).
\* i64::from_str accepts an optional leading '+' or '-' and then at least
\* one digit.
number_from_binary_i64(v) ==
    IF ~Utf8From(v, 1) \/ Len(v) = 0 THEN [ok |-> FALSE, val |-> 0]
    ELSE IF v[1] = 45 \/ v[1] = 43
    THEN IF Len(v) = 1 THEN [ok |-> FALSE, val |-> 0]
         ELSE LET n == ParseDigits(v, 2, 0, I64_MAX) IN
              IF n < 0 THEN [ok |-> FALSE, val |-> 0]
              ELSE [ok |-> TRUE, val |-> IF v[1] = 45 THEN -n ELSE n]
    ELSE LET n == ParseDigits(v, 1, 0, I64_MAX) IN
         IF n < 0 THEN [ok |-> FALSE, val |-> 0] ELSE [ok |-> TRUE, val |-> n]

\* find_terminator from cursor position i: the position of the first CR LF
\* at or after i, or -1 for Err(NotFound).  The loop runs over
\* position .. buf.len() - 1, so that buf[i + 1] exists.
find_terminator(buf, i) ==
    LET found == {k \in i .. Len(buf) - 2 : buf[k + 1] = 13 /\ buf[k + 2] = 10} IN
    IF found = {} THEN -1
    ELSE CHOOSE k \in found : \A j \in found : k <= j

\* read_string
read_string(buf, pos) ==
    LET end == find_terminator(buf, pos) IN
    IF end < 0 THEN ParseErr("NotFound")
    ELSE IF ~string_from_binary_ok(SubSeq(buf, pos + 1, end))
    THEN ParseErr("InvalidData")
    ELSE ParseOk(SubSeq(buf, pos + 1, end), end + 2)

\* read_number::<i64>
read_number_i64(buf, pos) ==
    LET end == find_terminator(buf, pos) IN
    IF end < 0 THEN ParseErr("NotFound")
    ELSE LET n == number_from_binary_i64(SubSeq(buf, pos + 1, end)) IN
         IF n.ok THEN ParseOk(n.val, end + 2) ELSE ParseErr("InvalidData")

\* read_number::<usize>
read_number_usize(buf, pos) ==
    LET end == find_terminator(buf, pos) IN
    IF end < 0 THEN ParseErr("NotFound")
    ELSE LET n == number_from_binary_usize(SubSeq(buf, pos + 1, end)) IN
         IF n >= 0 THEN ParseOk(n, end + 2) ELSE ParseErr("InvalidData")

\* read_binary asking for the payload only, not for the terminator after it.
read_binary_payload_only(buf, pos) ==
    LET end == read_number_usize(buf, pos) IN
    IF end.kind # "Ok" THEN end
    ELSE IF Len(buf) - end.pos < end.val THEN ParseErr("NotFound")
    ELSE ParseOk(SubSeq(buf, end.pos + 1, end.pos + end.val),
                 end.pos + end.val + Len(TERMINATOR))

\* read_binary: the payload of the declared length is taken once it and two
\* more bytes are there; what the two bytes are is not looked at.
read_binary(buf, pos) ==
    LET end == read_number_usize(buf, pos) IN
    IF end.kind # "Ok" THEN end
    ELSE LET len == end.val + Len(TERMINATOR) IN
         IF Len(buf) - end.pos < len THEN ParseErr("NotFound")
         ELSE ParseOk(SubSeq(buf, end.pos + 1, end.pos + end.val), end.pos + len)

RECURSIVE FrameParse(_, _)
RECURSIVE ReadArrayLoop(_, _, _, _)
RECURSIVE ReadMapLoop(_, _, _, _)

\* The loop of read_array with cnt elements still to parse.
ReadArrayLoop(buf, pos, cnt, vec) ==
    IF cnt = 0 THEN ParseOk(vec, pos)
    ELSE LET r == FrameParse(buf, pos) IN
         IF r.kind # "Ok" THEN r
         ELSE ReadArrayLoop(buf, r.pos, cnt - 1, Append(vec, r.val))

\* The loop of read_map with cnt pairs still to parse.
ReadMapLoop(buf, pos, cnt, vec) ==
    IF cnt = 0 THEN ParseOk(vec, pos)
    ELSE LET k == FrameParse(buf, pos) IN
         IF k.kind # "Ok" THEN k
         ELSE LET v == FrameParse(buf, k.pos) IN
              IF v.kind # "Ok" THEN v
              ELSE ReadMapLoop(buf, v.pos, cnt - 1, Append(vec, <<k.val, v.val>>))

\* read_array
read_array(buf, pos) ==
    LET cnt == read_number_usize(buf, pos) IN
    IF cnt.kind # "Ok" THEN cnt ELSE ReadArrayLoop(buf, cnt.pos, cnt.val, <<>>)

\* read_map
read_map(buf, pos) ==
    LET cnt == read_number_usize(buf, pos) IN
    IF cnt.kind # "Ok" THEN cnt ELSE ReadMapLoop(buf, cnt.pos, cnt.val, <<>>)

\* The value read by one arm of Frame::parse, wrapped in the arm's variant.
Wrap(tag, r) ==
    IF r.kind = "Ok" THEN ParseOk([tag |-> tag, val |-> r.val], r.pos) ELSE r

\* Frame::parse with the cursor at pos.
FrameParse(buf, pos) ==
    IF pos >= Len(buf) THEN ParseErr("NotFound")
    ELSE LET b == buf[pos + 1] IN
         CASE b = 43 -> Wrap("SimpleString", read_string(buf, pos + 1))
           [] b = 45 -> Wrap("SimpleError", read_string(buf, pos + 1))
           [] b = 58 -> Wrap("Integer", read_number_i64(buf, pos + 1))
           [] b = 36 -> Wrap("BulkString", read_binary(buf, pos + 1))
           [] b = 42 -> Wrap("Array", read_array(buf, pos + 1))
           [] b = 37 -> Wrap("Map", read_map(buf, pos + 1))
           [] OTHER -> ParseErr("InvalidData")

(***************************************************************************)
(* connection.rs: Connection::parse_frame and the read buffer.             *)
(***************************************************************************)
\* buffer.copy_within(from .. to, dest), positions counted from 0.
CopyWithin(buf, from, to, dest) ==
    [i \in 1 .. Len(buf) |->
        IF i > dest /\ i <= dest + (to - from) THEN buf[from + (i - dest)] ELSE buf[i]]

\* buffer.truncate(len)
Truncate(buf, len) == IF len < Len(buf) THEN SubSeq(buf, 1, len) ELSE buf

\* The arms of the match in parse_frame without the test of the length of
\* the buffer.
parse_frame_match_unlimited(buf, r) ==
    IF r.kind = "Ok"
    THEN [kind |-> "Some", frame |-> r.val, err |-> "",
          buffer |-> SubSeq(buf, r.pos + 1, Len(buf))]
    ELSE IF r.kind = "InvalidData"
    THEN [kind |-> "Err", frame |-> NoFrame, err |-> r.kind, buffer |-> <<>>]
    ELSE [kind |-> "None", frame |-> NoFrame, err |-> "", buffer |-> buf]

\* The arms of the match in parse_frame on the result r of Frame::parse:
\* Ok(Some(frame)), Ok(None) or Err(err), and the buffer it leaves.
parse_frame_match(buf, r) ==
    IF r.kind = "Ok"
    THEN LET position == r.pos
             remaining == Len(buf) - r.pos
         IN [kind |-> "Some", frame |-> r.val, err |-> "",
             buffer |-> IF remaining > 0
                        THEN Truncate(CopyWithin(buf, position, position + remaining, 0),
                                      remaining)
                        ELSE <<>>]
    ELSE IF r.kind = "InvalidData" \/ Len(buf) = BUFFER_SIZE
    THEN [kind |-> "Err", frame |-> NoFrame, err |-> r.kind, buffer |-> <<>>]
    ELSE [kind |-> "None", frame |-> NoFrame, err |-> "", buffer |-> buf]

\* Connection::parse_frame on the buffer contents buf.
parse_frame(buf) == parse_frame_match(buf, FrameParse(buf, 0))

\* The room read_buf has to read into: the spare capacity of the buffer,
\* which BytesMut extends by 64 bytes when there is none.
SpareCapacity(buf) ==
    IF Len(buf) >= BUFFER_SIZE THEN 64 ELSE BUFFER_SIZE - Len(buf)

(***************************************************************************)
(* connection.rs: Protocol.                                                *)
(***************************************************************************)
\* Protocol::try_from taking every version from 3 on as RESP3.
ProtocolTryFromLenient(value) ==
    IF value = 2 THEN "RESP2"
    ELSE IF value >= 3 THEN "RESP3"
    ELSE "Err"

\* impl TryFrom<u8> for Protocol: the protocol, or "Err" for
\* Err("Unsupported protocol version").
ProtocolTryFrom(value) ==
    IF value = 2 THEN "RESP2"
    ELSE IF value = 3 THEN "RESP3"
    ELSE "Err"

(***************************************************************************)
(* command.rs: Command::from_frame and Command::apply.                     *)
(***************************************************************************)
\* A Command value; kind "Err" stands for Err(ErrorKind::InvalidData).
\* HELLO(None) is [some |-> FALSE], HELLO(Some(v)) is [some |-> TRUE, version |-> v],
\* UNKNOWN(e) carries error = e.
Cmd(kind, some, version, error) ==
    [kind |-> kind, some |-> some, version |-> version, error |-> error]

CmdOf(kind) == Cmd(kind, FALSE, 0, <<>>)

CmdUnknown(error) == Cmd("UNKNOWN", FALSE, 0, error)

\* The "hello" arm of from_frame.
HelloFromFrames(frames) ==
    IF Len(frames) > 1
    THEN IF frames[2].tag = "BulkString"
         THEN LET version == number_from_binary_u8(frames[2].val) IN
              IF version >= 0
              THEN Cmd("HELLO", TRUE, version, <<>>)
              ELSE CmdUnknown(MSG_NOT_INT)
         ELSE CmdUnknown(MSG_NOT_INT)
    ELSE Cmd("HELLO", FALSE, 0, <<>>)

\* Command::from_frame
from_frame(frame) ==
    IF frame.tag = "Array"
    THEN IF Len(frame.val) = 0
         THEN CmdOf("Err")
         ELSE IF frame.val[1].tag = "BulkString"
         THEN IF ~string_from_binary_ok(frame.val[1].val)
              THEN CmdOf("Err")
              ELSE LET s == to_ascii_lowercase(frame.val[1].val) IN
                   IF s = STR_auth THEN CmdOf("AUTH")
                   ELSE IF s = STR_client THEN CmdOf("CLIENT")
                   ELSE IF s = STR_hello THEN HelloFromFrames(frame.val)
                   ELSE IF s = STR_next THEN CmdOf("NEXT")
                   ELSE IF s = STR_select THEN CmdOf("SELECT")
                   ELSE CmdUnknown(MSG_UNKNOWN)
         ELSE CmdUnknown(MSG_UNKNOWN)
    ELSE CmdOf("Err")

\* The server-info payload of HELLO in the shape of a protocol.
HelloReply(protocol) ==
    IF protocol = "RESP2"
    THEN Array(<<SimpleString(STR_server), SimpleString(CARGO_PKG_NAME),
                 SimpleString(STR_version), SimpleString(CARGO_PKG_VERSION),
                 SimpleString(STR_proto), Integer(2)>>)
    ELSE Map(<<<<SimpleString(STR_server), SimpleString(CARGO_PKG_NAME)>>,
               <<SimpleString(STR_version), SimpleString(CARGO_PKG_VERSION)>>,
               <<SimpleString(STR_proto), Integer(3)>>>>)

\* The protocol of the connection after Command::apply of a HELLO.
HelloProtocol(cmd, protocol) ==
    IF cmd.some /\ ProtocolTryFrom(cmd.version) # "Err"
    THEN ProtocolTryFrom(cmd.version)
    ELSE protocol

\* The HELLO arm keyed on the protocol in force before the switch.
ApplyHelloPreSwitch(cmd, protocol) ==
    IF cmd.some /\ ProtocolTryFrom(cmd.version) = "Err"
    THEN SimpleError(MSG_UNSUPPORTED)
    ELSE HelloReply(protocol)

\* The HELLO arm of Command::apply.
ApplyHello(cmd, protocol) ==
    IF cmd.some /\ ProtocolTryFrom(cmd.version) = "Err"
    THEN SimpleError(MSG_UNSUPPORTED)
    ELSE HelloReply(HelloProtocol(cmd, protocol))

\* Command::apply with the UNKNOWN arm passing the message on as it is.
ApplyReplyNoPrefix(cmd, protocol) ==
    CASE cmd.kind = "AUTH" -> SimpleString(STR_OK)
      [] cmd.kind = "CLIENT" -> SimpleString(STR_OK)
      [] cmd.kind = "HELLO" -> ApplyHello(cmd, protocol)
      [] cmd.kind = "SELECT" -> SimpleString(STR_OK)
      [] cmd.kind = "UNKNOWN" -> SimpleError(cmd.error)

\* The reply of Command::apply for every command but NEXT, which calls
\* next_id; conn.protocol is the connection's protocol before the call.
ApplyReply(cmd, protocol) ==
    CASE cmd.kind = "AUTH" -> SimpleString(STR_OK)
      [] cmd.kind = "CLIENT" -> SimpleString(STR_OK)
      [] cmd.kind = "HELLO" -> ApplyHello(cmd, protocol)
      [] cmd.kind = "SELECT" -> SimpleString(STR_OK)
      [] cmd.kind = "UNKNOWN" -> SimpleError(ERR_PREFIX \o cmd.error)

\* conn.protocol after Command::apply.
ApplyProtocol(cmd, protocol) ==
    IF cmd.kind = "HELLO" THEN HelloProtocol(cmd, protocol) ELSE protocol

\* The NEXT arm of Command::apply: the reply for the result of next_id.
NextReplyOk(id) == Integer(id)

NextReplyErr(err) == SimpleError(err)

(***************************************************************************)
(* Inputs: the request frames a peer sends and the configured machine IDs. *)
(***************************************************************************)
VERB_NEXT == <<78, 69, 88, 84>>  \* "NEXT"
VERB_HeLLo == <<72, 101, 76, 76, 111>>  \* "HeLLo"
VERB_PING == <<80, 73, 78, 71>>  \* "PING"
VERB_AUTH == <<65, 85, 84, 72>>  \* "AUTH"
VERB_Client == <<67, 108, 105, 101, 110, 116>>  \* "Client"
VERB_select == <<115, 101, 108, 101, 99, 116>>  \* "select"
VERB_e_acute == <<195, 169>>  \* "é"
VERB_EMPTY == <<>>  \* ""
VERB_NOT_UTF8 == <<255>>

ARG_2 == <<50>>  \* "2"
ARG_3 == <<51>>  \* "3"
ARG_9 == <<57>>  \* "9"
ARG_PLUS3 == <<43, 51>>  \* "+3"
ARG_abc == <<97, 98, 99>>  \* "abc"
ARG_256 == <<50, 53, 54>>  \* "256"

Verbs == {VERB_NEXT, VERB_HeLLo, VERB_PING, VERB_AUTH, VERB_Client,
          VERB_select, VERB_e_acute, VERB_EMPTY, VERB_NOT_UTF8}

HelloArgs == {BulkString(ARG_2), BulkString(ARG_3), BulkString(ARG_9),
              BulkString(ARG_PLUS3), BulkString(ARG_abc), BulkString(ARG_256),
              BulkString(<<>>), Integer(3)}

NonArrayRequests == {SimpleString(VERB_PING), SimpleError(VERB_PING), Integer(5),
                     BulkString(VERB_NEXT), Map(<<>>)}

Requests ==
    {Array(<<BulkString(v)>>) : v \in Verbs}
    \cup {Array(<<BulkString(VERB_HeLLo), a>>) : a \in HelloArgs}
    \cup {Array(<<>>), Array(<<Integer(1)>>)}
    \cup NonArrayRequests

NextRequest == Array(<<BulkString(VERB_NEXT)>>)

\* The frames the peer of a session sends: the first peer draws on the whole
\* vocabulary, the other peers negotiate the protocol and ask for IDs.
PeerRequests == {NextRequest,
                 Array(<<BulkString(VERB_HeLLo), BulkString(ARG_3)>>),
                 Array(<<BulkString(VERB_HeLLo), BulkString(ARG_2)>>)}

RequestsOf(s) == IF s = 1 THEN Requests ELSE PeerRequests

\* The texts among the inputs that denote protocol version 2 and 3.
VersionTexts == [RESP2 |-> {ARG_2}, RESP3 |-> {ARG_3, ARG_PLUS3}]

\* The spellings of the HELLO verb among the inputs.
HelloSpellings == {VERB_HeLLo}

IsHelloRequest(frame) ==
    /\ frame.tag = "Array"
    /\ Len(frame.val) >= 1
    /\ frame.val[1].tag = "BulkString"
    /\ frame.val[1].val \in HelloSpellings

\* The protocol a HELLO request validly asks for, "none" when the frame is no
\* HELLO, has no argument, or has an argument that is not the text of 2 or 3.
RequestedProtocol(frame) ==
    IF IsHelloRequest(frame) /\ Len(frame.val) >= 2 /\ frame.val[2].tag = "BulkString"
    THEN IF frame.val[2].val \in VersionTexts.RESP2 THEN "RESP2"
         ELSE IF frame.val[2].val \in VersionTexts.RESP3 THEN "RESP3"
         ELSE "none"
    ELSE "none"

DEFAULT_MACHINE == 0

MachineIds == {DEFAULT_MACHINE, 165, 255}

(***************************************************************************)
(* State.                                                                  *)
(***************************************************************************)
VARIABLES
    LAST_ID,    \* snowflake.rs: static LAST_ID: AtomicI64
    MACHINE,    \* snowflake.rs: static MACHINE: SetOnce<u8>, set by main
    clock,      \* the wall clock, in milliseconds since EPOCH
    closing,    \* main.rs: closing_tx has been dropped
    pc,         \* per session: position of its task in Handler::handle
    exit,       \* per session: how handle ended, "none" while it runs
    protocol,   \* per session: conn.protocol
    resp,       \* per session: the reply frame handle is about to write
    last_id,    \* per session: next_id's local last_id
    now,        \* per session: next_id's local now
    nreq,       \* per session: number of frames read so far
    req,        \* history: the frame the session read last
    out,        \* history: the reply written for req, NoFrame before that
    proto0,     \* history: conn.protocol when req was read
    hello,      \* history: the protocol the session's last accepted HELLO asked for
    start,      \* history: length of trace when the session's call of next_id began
    trace,      \* history: the results of next_id, in order of return
    main_pc,    \* main.rs: position of main
    semaphore,  \* main.rs: the permits available in the semaphore
    permit,     \* main.rs: who holds a permit: 0 for the accept loop, s for task s
    closed_tx,  \* main.rs: who holds conn_closed_tx or a clone: 0 for main, s for task s
    recv,       \* main.rs: how all_conn_closed_rx.recv() under the timeout ended
    cframe,     \* codec: the frame that is serialized, NoFrame for raw bytes
    cwire,      \* codec: the bytes on their way to the parser
    cgot,       \* codec: the number of bytes of cwire that have arrived
    cres,       \* codec: the result of Frame::parse on the bytes that have arrived
    buffer,     \* per session: conn.buffer
    stream,     \* per session: the bytes the peer sends before it closes
    sent,       \* per session: the number of bytes of stream read off the socket
    taken,      \* history, per session: the frames read_frame has returned
    written     \* history, per session: the frames write_frame has written

srvVars == <<main_pc, semaphore, permit, closed_tx, recv>>

codecVars == <<cframe, cwire, cgot, cres>>

connVars == <<buffer, stream, sent, taken, written>>

vars == <<LAST_ID, MACHINE, clock, closing, pc, exit, protocol, resp, last_id,
          now, nreq, req, out, proto0, hello, start, trace,
          srvVars, codecVars, connVars>>

\* The parts of the state that a specification leaves out keep these values.
NoServer ==
    /\ main_pc = "accept"
    /\ semaphore = 0
    /\ permit = {}
    /\ closed_tx = {}
    /\ recv = "none"

NoCodec ==
    /\ cframe = NoFrame
    /\ cwire = <<>>
    /\ cgot = 0
    /\ cres = NoFrame

NoConn ==
    /\ buffer = <<>>
    /\ stream = <<>>
    /\ sent = <<>>
    /\ taken = <<>>
    /\ written = <<>>

\* A cell value the generator leaves behind after earlier calls: the second
\* last sequence number of millisecond 0.
NearExhausted(m) ==
    I64From([timestamp |-> 0, machine |-> m, sequence |-> MAX_SEQ - 1])

\* The state after main has set MACHINE and the sessions have been created
\* by Handler::new, for a machine ID and a value of the last-ID cell.
InitWith(machines, cells) ==
    /\ MACHINE \in machines
    /\ LAST_ID \in cells
    /\ clock = 0
    /\ closing = FALSE
    /\ pc = [s \in Sessions |-> "read"]
    /\ exit = [s \in Sessions |-> "none"]
    /\ protocol = [s \in Sessions |-> "RESP2"]
    /\ resp = [s \in Sessions |-> NoFrame]
    /\ last_id = [s \in Sessions |-> 0]
    /\ now = [s \in Sessions |-> 0]
    /\ nreq = [s \in Sessions |-> 0]
    /\ req = [s \in Sessions |-> NoFrame]
    /\ out = [s \in Sessions |-> NoFrame]
    /\ proto0 = [s \in Sessions |-> "RESP2"]
    /\ hello = [s \in Sessions |-> "RESP2"]
    /\ start = [s \in Sessions |-> 0]
    /\ trace = IF LAST_ID = 0 THEN <<>>
               ELSE <<[by |-> 0, kind |-> "Ok", id |-> LAST_ID]>>
    /\ NoServer
    /\ NoCodec
    /\ NoConn

\* The server as started with the default machine ID.
Init == InitWith({DEFAULT_MACHINE}, {0})

\* The generator under any configured machine ID, fresh or after earlier calls
\* have used up all but the last sequence number of millisecond 0.
InitGen ==
    \E m \in MachineIds : InitWith({m}, {0, NearExhausted(m)})

(***************************************************************************)
(* The environment: the wall clock and the interrupt.                      *)
(***************************************************************************)
ClockAdvance ==
    /\ \E c \in ClockRange : c > clock /\ clock' = c
    /\ UNCHANGED <<LAST_ID, MACHINE, closing, pc, exit, protocol, resp, last_id,
                   now, nreq, req, out, proto0, hello, start, trace>>
    /\ UNCHANGED <<srvVars, codecVars, connVars>>

ClockRegress ==
    /\ \E c \in ClockRange : c < clock /\ clock' = c
    /\ UNCHANGED <<LAST_ID, MACHINE, closing, pc, exit, protocol, resp, last_id,
                   now, nreq, req, out, proto0, hello, start, trace>>
    /\ UNCHANGED <<srvVars, codecVars, connVars>>

\* main.rs: ctrl_c() resolves and closing_tx is dropped.
Interrupt ==
    /\ ~closing
    /\ closing' = TRUE
    /\ UNCHANGED <<LAST_ID, MACHINE, clock, pc, exit, protocol, resp, last_id,
                   now, nreq, req, out, proto0, hello, start, trace>>
    /\ UNCHANGED <<srvVars, codecVars, connVars>>

(***************************************************************************)
(* lib.rs: Handler::handle, one session's task.                            *)
(***************************************************************************)
\* handle returns and the spawned task ends: the Handler, and with it the
\* Connection, is dropped.  Only the way the task ended remains.
Drop(s, how) ==
    /\ pc' = [pc EXCEPT ![s] = "done"]
    /\ exit' = [exit EXCEPT ![s] = how]
    /\ protocol' = [protocol EXCEPT ![s] = "RESP2"]
    /\ resp' = [resp EXCEPT ![s] = NoFrame]
    /\ nreq' = [nreq EXCEPT ![s] = 0]
    /\ out' = [out EXCEPT ![s] = NoFrame]
    /\ proto0' = [proto0 EXCEPT ![s] = "RESP2"]
    /\ hello' = [hello EXCEPT ![s] = "RESP2"]

\* read_frame yields a frame; from_frame and (for every command but NEXT)
\* apply run on it without touching shared state.
Receive(s, frame) ==
    /\ pc[s] = "read"
    /\ nreq[s] < MaxReq
    /\ LET cmd == from_frame(frame) IN
       /\ req' = [req EXCEPT ![s] = frame]
       /\ IF cmd.kind = "Err"
          THEN /\ Drop(s, "command:InvalidData")
               /\ UNCHANGED start
          ELSE /\ out' = [out EXCEPT ![s] = NoFrame]
               /\ proto0' = [proto0 EXCEPT ![s] = protocol[s]]
               /\ nreq' = [nreq EXCEPT ![s] = @ + 1]
               /\ hello' = [hello EXCEPT ![s] =
                               IF RequestedProtocol(frame) = "none"
                               THEN @ ELSE RequestedProtocol(frame)]
               /\ IF cmd.kind = "NEXT"
                  THEN /\ pc' = [pc EXCEPT ![s] = "load"]
                       /\ start' = [start EXCEPT ![s] = Len(trace)]
                       /\ UNCHANGED <<exit, protocol, resp>>
                  ELSE /\ pc' = [pc EXCEPT ![s] = "write"]
                       /\ resp' = [resp EXCEPT ![s] = ApplyReply(cmd, protocol[s])]
                       /\ protocol' = [protocol EXCEPT ![s] =
                                          ApplyProtocol(cmd, protocol[s])]
                       /\ UNCHANGED <<exit, start>>
    /\ UNCHANGED <<LAST_ID, MACHINE, clock, closing, last_id, now, trace>>
    /\ UNCHANGED <<srvVars, codecVars, connVars>>

\* read_frame yields Ok(None): the peer closed with an empty buffer.
ReadEof(s) ==
    /\ pc[s] = "read"
    /\ Drop(s, "eof")
    /\ req' = [req EXCEPT ![s] = NoFrame]
    /\ UNCHANGED <<LAST_ID, MACHINE, clock, closing, last_id, now, start, trace>>
    /\ UNCHANGED <<srvVars, codecVars, connVars>>

\* read_frame yields Err: malformed bytes, or the peer closed mid-frame.
ReadError(s, kind) ==
    /\ pc[s] = "read"
    /\ Drop(s, kind)
    /\ req' = [req EXCEPT ![s] = NoFrame]
    /\ UNCHANGED <<LAST_ID, MACHINE, clock, closing, last_id, now, start, trace>>
    /\ UNCHANGED <<srvVars, codecVars, connVars>>

\* A select without the closing.changed() branch.
ObserveShutdownNever(s) == FALSE

\* The closing.changed() branch of the select wins.
ObserveShutdown(s) ==
    /\ pc[s] = "read"
    /\ closing
    /\ Drop(s, "shutdown")
    /\ req' = [req EXCEPT ![s] = NoFrame]
    /\ UNCHANGED <<LAST_ID, MACHINE, clock, closing, last_id, now, start, trace>>
    /\ UNCHANGED <<srvVars, codecVars, connVars>>

\* write_frame succeeds: the reply is written and flushed.
WriteFrame(s) ==
    /\ pc[s] = "write"
    /\ out' = [out EXCEPT ![s] = resp[s]]
    /\ resp' = [resp EXCEPT ![s] = NoFrame]
    /\ pc' = [pc EXCEPT ![s] = "read"]
    /\ UNCHANGED <<LAST_ID, MACHINE, clock, closing, exit, protocol, last_id,
                   now, nreq, req, proto0, hello, start, trace>>
    /\ UNCHANGED <<srvVars, codecVars, connVars>>

\* write_frame fails (the peer is gone).
WriteError(s) ==
    /\ pc[s] = "write"
    /\ Drop(s, "write:Err")
    /\ req' = [req EXCEPT ![s] = NoFrame]
    /\ UNCHANGED <<LAST_ID, MACHINE, clock, closing, last_id, now, start, trace>>
    /\ UNCHANGED <<srvVars, codecVars, connVars>>

(***************************************************************************)
(* snowflake.rs: next_id, called by the NEXT arm of Command::apply.        *)
(***************************************************************************)
\* let last_id = LAST_ID.load(Ordering::Acquire)
Load(s) ==
    /\ pc[s] = "load"
    /\ last_id' = [last_id EXCEPT ![s] = LAST_ID]
    /\ pc' = [pc EXCEPT ![s] = "clock"]
    /\ UNCHANGED <<LAST_ID, MACHINE, clock, closing, exit, protocol, resp,
                   now, nreq, req, out, proto0, hello, start, trace>>
    /\ UNCHANGED <<srvVars, codecVars, connVars>>

\* let now = SystemTime::now() ..., and the checks on it.
ReadClock(s) ==
    /\ pc[s] = "clock"
    /\ LET c == NextIdCandidate(last_id[s], clock, MACHINE) IN
       IF c.kind = "Err"
       THEN /\ resp' = [resp EXCEPT ![s] = NextReplyErr(MSG_CLOCK)]
            /\ trace' = Append(trace, [by |-> s, kind |-> "Err", id |-> 0])
            /\ pc' = [pc EXCEPT ![s] = "write"]
            /\ last_id' = [last_id EXCEPT ![s] = 0]
            /\ UNCHANGED now
       ELSE IF c.kind = "Spin"
       THEN /\ pc' = [pc EXCEPT ![s] = "load"]
            /\ last_id' = [last_id EXCEPT ![s] = 0]
            /\ UNCHANGED <<resp, trace, now>>
       ELSE /\ now' = [now EXCEPT ![s] = clock]
            /\ pc' = [pc EXCEPT ![s] = "cas"]
            /\ UNCHANGED <<resp, trace, last_id>>
    /\ UNCHANGED <<LAST_ID, MACHINE, clock, closing, exit, protocol,
                   nreq, req, out, proto0, hello, start>>
    /\ UNCHANGED <<srvVars, codecVars, connVars>>

\* LAST_ID.compare_exchange_weak(last_id, next_id, ..) and what follows it.
Cas(s, spurious) ==
    /\ pc[s] = "cas"
    /\ LET next_id == NextIdCandidate(last_id[s], now[s], MACHINE).next_id IN
       IF CompareExchangeWeak(LAST_ID, last_id[s], spurious)
       THEN /\ LAST_ID' = next_id
            /\ resp' = [resp EXCEPT ![s] = NextReplyOk(next_id)]
            /\ trace' = Append(trace, [by |-> s, kind |-> "Ok", id |-> next_id])
            /\ pc' = [pc EXCEPT ![s] = "write"]
       ELSE /\ pc' = [pc EXCEPT ![s] = "load"]
            /\ UNCHANGED <<LAST_ID, resp, trace>>
    /\ last_id' = [last_id EXCEPT ![s] = 0]
    /\ now' = [now EXCEPT ![s] = 0]
    /\ UNCHANGED <<MACHINE, clock, closing, exit, protocol,
                   nreq, req, out, proto0, hello, start>>
    /\ UNCHANGED <<srvVars, codecVars, connVars>>

ReadErrorKinds == {"read:InvalidData", "read:ConnectionReset"}

Env ==
    \/ ClockAdvance
    \/ ClockRegress
    \/ Interrupt

\* The steps of a session's task other than taking a frame off the wire.
Session(s) ==
    \/ ReadEof(s)
    \/ \E kind \in ReadErrorKinds : ReadError(s, kind)
    \/ ObserveShutdown(s)
    \/ WriteFrame(s)
    \/ WriteError(s)
    \/ Load(s)
    \/ ReadClock(s)
    \/ \E spurious \in BOOLEAN : Cas(s, spurious)

Next ==
    \/ Env
    \/ \E s \in Sessions : \E frame \in RequestsOf(s) : Receive(s, frame)
    \/ \E s \in Sessions : Session(s)

\* The server with peers that send any of the request frames.
Spec == Init /\ [][Next]_vars

NextGen ==
    \/ Env
    \/ \E s \in Sessions : Receive(s, NextRequest)
    \/ \E s \in Sessions : Session(s)

\* The ID generator under concurrent callers: every peer sends NEXT only.
SpecGen == InitGen /\ [][NextGen]_vars

(***************************************************************************)
(* main.rs: the accept loop, the semaphore, the shutdown and the drain     *)
(* wait, with the sessions as tasks the loop spawns.  A task's pc is       *)
(* "idle" before it is spawned, a position in Handler::handle while handle *)
(* runs, "done" when handle has returned, "released" after drop(permit),   *)
(* "ended" when the task is over and its Handler dropped, and "killed"     *)
(* when the process exited first.                                          *)
(***************************************************************************)
\* The frames a peer of the server sends: a command, and a frame that is no
\* command.
SrvRequests == {Array(<<BulkString(VERB_AUTH)>>), Integer(5)}

\* The process started: main is about to acquire a permit, no connection
\* has been accepted.
InitSrv ==
    /\ MACHINE = DEFAULT_MACHINE
    /\ LAST_ID = 0
    /\ clock = 0
    /\ closing = FALSE
    /\ pc = [s \in Tasks |-> "idle"]
    /\ exit = [s \in Tasks |-> "none"]
    /\ protocol = [s \in Tasks |-> "RESP2"]
    /\ resp = [s \in Tasks |-> NoFrame]
    /\ last_id = [s \in Tasks |-> 0]
    /\ now = [s \in Tasks |-> 0]
    /\ nreq = [s \in Tasks |-> 0]
    /\ req = [s \in Tasks |-> NoFrame]
    /\ out = [s \in Tasks |-> NoFrame]
    /\ proto0 = [s \in Tasks |-> "RESP2"]
    /\ hello = [s \in Tasks |-> "RESP2"]
    /\ start = [s \in Tasks |-> 0]
    /\ trace = <<>>
    /\ main_pc = "acquire"
    /\ semaphore = MaxClients
    /\ permit = {}
    /\ closed_tx = {0}
    /\ recv = "none"
    /\ NoCodec
    /\ NoConn

\* acquire_owned() always resolving, permit or not.
PermitAlways(available) == TRUE

\* semaphore.acquire_owned() resolves when a permit is available.
PermitAvailable(available) == available > 0

\* recv() yielding None as soon as main's own sender is dropped.
RecvClosedMainOnly(senders) == 0 \notin senders

\* all_conn_closed_rx.recv() yields None when every sender is dropped
\* (nothing is ever sent).
RecvIsClosed(senders) == senders = {}

\* let permit = semaphore.clone().acquire_owned().await.unwrap()
Acquire ==
    /\ main_pc = "acquire"
    /\ PermitAvailable(semaphore)
    /\ semaphore' = semaphore - 1
    /\ permit' = permit \cup {0}
    /\ main_pc' = "accept"
    /\ UNCHANGED <<closed_tx, recv>>
    /\ UNCHANGED <<LAST_ID, MACHINE, clock, closing, pc, exit, protocol, resp,
                   last_id, now, nreq, req, out, proto0, hello, start, trace>>
    /\ UNCHANGED <<codecVars, connVars>>

\* listener.accept() yields a connection; Handler::new and tokio::spawn: the
\* task owns the permit and a clone of conn_closed_tx and runs handle.
Accept(s) ==
    /\ main_pc = "accept"
    /\ pc[s] \in {"idle", "ended"}
    /\ pc' = [pc EXCEPT ![s] = "read"]
    /\ exit' = [exit EXCEPT ![s] = "none"]
    /\ req' = [req EXCEPT ![s] = NoFrame]
    /\ permit' = (permit \ {0}) \cup {s}
    /\ closed_tx' = closed_tx \cup {s}
    /\ main_pc' = "acquire"
    /\ UNCHANGED <<semaphore, recv>>
    /\ UNCHANGED <<LAST_ID, MACHINE, clock, closing, protocol, resp,
                   last_id, now, nreq, out, proto0, hello, start, trace>>
    /\ UNCHANGED <<codecVars, connVars>>

\* handle has returned, Ok or Err: drop(permit).
TaskDropPermit(s) ==
    /\ pc[s] = "done"
    /\ pc' = [pc EXCEPT ![s] = "released"]
    /\ permit' = permit \ {s}
    /\ semaphore' = semaphore + 1
    /\ UNCHANGED <<main_pc, closed_tx, recv>>
    /\ UNCHANGED <<LAST_ID, MACHINE, clock, closing, exit, protocol, resp,
                   last_id, now, nreq, req, out, proto0, hello, start, trace>>
    /\ UNCHANGED <<codecVars, connVars>>

\* The task's block ends: the Handler is dropped, and with it the
\* connection and the task's clone of conn_closed_tx.
TaskEnd(s) ==
    /\ pc[s] = "released"
    /\ pc' = [pc EXCEPT ![s] = "ended"]
    /\ closed_tx' = closed_tx \ {s}
    /\ UNCHANGED <<main_pc, semaphore, permit, recv>>
    /\ UNCHANGED <<LAST_ID, MACHINE, clock, closing, exit, protocol, resp,
                   last_id, now, nreq, req, out, proto0, hello, start, trace>>
    /\ UNCHANGED <<codecVars, connVars>>

\* ctrl_c() resolves: the select is over and the accept loop's future is
\* dropped, with the permit it may hold.
CtrlC ==
    /\ main_pc \in {"acquire", "accept"}
    /\ main_pc' = "signal"
    /\ permit' = permit \ {0}
    /\ semaphore' = IF 0 \in permit THEN semaphore + 1 ELSE semaphore
    /\ UNCHANGED <<closed_tx, recv>>
    /\ UNCHANGED <<LAST_ID, MACHINE, clock, closing, pc, exit, protocol, resp,
                   last_id, now, nreq, req, out, proto0, hello, start, trace>>
    /\ UNCHANGED <<codecVars, connVars>>

\* drop(closing_tx)
DropClosingTx ==
    /\ main_pc = "signal"
    /\ closing' = TRUE
    /\ main_pc' = "release"
    /\ UNCHANGED <<semaphore, permit, closed_tx, recv>>
    /\ UNCHANGED <<LAST_ID, MACHINE, clock, pc, exit, protocol, resp,
                   last_id, now, nreq, req, out, proto0, hello, start, trace>>
    /\ UNCHANGED <<codecVars, connVars>>

\* drop(conn_closed_tx)
DropConnClosedTx ==
    /\ main_pc = "release"
    /\ closed_tx' = closed_tx \ {0}
    /\ main_pc' = "recv"
    /\ UNCHANGED <<semaphore, permit, recv>>
    /\ UNCHANGED <<LAST_ID, MACHINE, clock, closing, pc, exit, protocol, resp,
                   last_id, now, nreq, req, out, proto0, hello, start, trace>>
    /\ UNCHANGED <<codecVars, connVars>>

\* main returns and the runtime is dropped: the tasks that have not ended
\* are cancelled, and what they own is dropped.
ProcessExit ==
    /\ main_pc' = "exited"
    /\ pc' = [s \in Tasks |-> IF pc[s] \in {"idle", "ended"} THEN pc[s] ELSE "killed"]
    /\ permit' = {}
    /\ semaphore' = MaxClients
    /\ closed_tx' = {}
    /\ UNCHANGED <<LAST_ID, MACHINE, clock, closing, exit, protocol, resp,
                   last_id, now, nreq, req, out, proto0, hello, start, trace>>
    /\ UNCHANGED <<codecVars, connVars>>

\* all_conn_closed_rx.recv() yields None within the timeout.
RecvClosed ==
    /\ main_pc = "recv"
    /\ RecvIsClosed(closed_tx)
    /\ recv' = "closed"
    /\ ProcessExit

\* The timeout of 10 seconds elapses first: "Forcing exit due to timeout".
RecvTimeout ==
    /\ main_pc = "recv"
    /\ recv' = "timeout"
    /\ ProcessExit

\* main
Main ==
    \/ Acquire
    \/ \E s \in Tasks : Accept(s)
    \/ CtrlC
    \/ DropClosingTx
    \/ DropConnClosedTx
    \/ RecvClosed
    \/ RecvTimeout

\* The task spawned for a connection.
Task(s) ==
    \/ \E frame \in SrvRequests : Receive(s, frame)
    \/ ReadEof(s)
    \/ \E kind \in ReadErrorKinds : ReadError(s, kind)
    \/ ObserveShutdown(s)
    \/ WriteFrame(s)
    \/ WriteError(s)
    \/ TaskDropPermit(s)
    \/ TaskEnd(s)

NextSrv ==
    \/ Main
    \/ \E s \in Tasks : Task(s)

SpecSrv == InitSrv /\ [][NextSrv]_vars

\* main and the tasks are scheduled; a session that comes back to its
\* select again and again while the shutdown branch is ready takes that
\* branch; a write is not blocked for ever; the time of the timeout passes.
FairSrv ==
    /\ WF_vars(DropClosingTx)
    /\ WF_vars(DropConnClosedTx)
    /\ WF_vars(RecvClosed)
    /\ \A s \in Tasks :
           /\ SF_vars(ObserveShutdown(s))
           /\ WF_vars(WriteFrame(s) \/ WriteError(s))
           /\ WF_vars(TaskDropPermit(s))
           /\ WF_vars(TaskEnd(s))

SpecSrvFair == InitSrv /\ [][NextSrv]_vars /\ FairSrv

(***************************************************************************)
(* The ID generator under a wall clock that never goes back and keeps      *)
(* going, and under fair scheduling of the callers.                        *)
(***************************************************************************)
\* The steps of a call of next_id.
NextIdStep(s) ==
    \/ Load(s)
    \/ ReadClock(s)
    \/ \E spurious \in BOOLEAN : Cas(s, spurious)

NextGenFair ==
    \/ ClockAdvance
    \/ \E s \in Sessions : Receive(s, NextRequest)
    \/ \E s \in Sessions : WriteFrame(s)
    \/ \E s \in Sessions : NextIdStep(s)

\* The clock reaches a later millisecond while there is one; a caller that
\* can take a step takes one; a caller that attempts the compare-and-set
\* again and again is not failed spuriously every time.
FairGen ==
    /\ WF_vars(ClockAdvance)
    /\ \A s \in Sessions :
           /\ WF_vars(Load(s))
           /\ WF_vars(ReadClock(s))
           /\ SF_vars(Cas(s, FALSE))

SpecGenFair == InitGen /\ [][NextGenFair]_vars /\ FairGen

(***************************************************************************)
(* connection.rs and lib.rs: one session with its read buffer.  The peer   *)
(* sends the bytes of a stream and closes; the socket hands them over in   *)
(* reads of any size.  A session's pc is "read" at the select of handle    *)
(* and "await" inside read_frame, waiting for read_buf.                    *)
(***************************************************************************)
ConnSessions == {1}

\* AUTH, HELLO 3 and the first bytes of a NEXT.
STREAM_PIPELINED == <<42, 49, 13, 10, 36, 52, 13, 10, 65, 85, 84, 72, 13, 10, 42, 50, 13, 10, 36, 53, 13, 10, 72, 101, 76, 76, 111, 13, 10, 36, 49, 13, 10, 51, 13, 10, 42, 49, 13, 10, 36, 52, 13, 10, 78, 69>>
\* NEXT and PING.
STREAM_NEXT_PING == <<42, 49, 13, 10, 36, 52, 13, 10, 78, 69, 88, 84, 13, 10, 42, 49, 13, 10, 36, 52, 13, 10, 80, 73, 78, 71, 13, 10>>
\* An Array with a BulkString of declared length 200, of which 140 bytes
\* are sent.
STREAM_LONG_BULK == <<42, 49, 13, 10, 36, 50, 48, 48, 13, 10, 97, 97, 97, 97, 97, 97, 97, 97, 97, 97, 97, 97, 97, 97, 97, 97, 97, 97, 97, 97, 97, 97, 97, 97, 97, 97, 97, 97, 97, 97, 97, 97, 97, 97, 97, 97, 97, 97, 97, 97, 97, 97, 97, 97, 97, 97, 97, 97, 97, 97, 97, 97, 97, 97, 97, 97, 97, 97, 97, 97, 97, 97, 97, 97, 97, 97, 97, 97, 97, 97, 97, 97, 97, 97, 97, 97, 97, 97, 97, 97, 97, 97, 97, 97, 97, 97, 97, 97, 97, 97, 97, 97, 97, 97, 97, 97, 97, 97, 97, 97, 97, 97, 97, 97, 97, 97, 97, 97, 97, 97, 97, 97, 97, 97, 97, 97, 97, 97, 97, 97, 97, 97, 97, 97, 97, 97, 97, 97, 97, 97, 97, 97, 97, 97, 97, 97, 97, 97, 97, 97>>
\* AUTH and a SimpleString of 130 bytes without its terminator.
STREAM_AUTH_LONG_LINE == <<42, 49, 13, 10, 36, 52, 13, 10, 65, 85, 84, 72, 13, 10, 43, 120, 120, 120, 120, 120, 120, 120, 120, 120, 120, 120, 120, 120, 120, 120, 120, 120, 120, 120, 120, 120, 120, 120, 120, 120, 120, 120, 120, 120, 120, 120, 120, 120, 120, 120, 120, 120, 120, 120, 120, 120, 120, 120, 120, 120, 120, 120, 120, 120, 120, 120, 120, 120, 120, 120, 120, 120, 120, 120, 120, 120, 120, 120, 120, 120, 120, 120, 120, 120, 120, 120, 120, 120, 120, 120, 120, 120, 120, 120, 120, 120, 120, 120, 120, 120, 120, 120, 120, 120, 120, 120, 120, 120, 120, 120, 120, 120, 120, 120, 120, 120, 120, 120, 120, 120, 120, 120, 120, 120, 120, 120, 120, 120, 120, 120, 120, 120, 120, 120, 120, 120, 120, 120, 120, 120, 120, 120, 120, 120, 120>>
\* A command of exactly 128 bytes, and AUTH.
STREAM_FULL_FRAME == <<42, 49, 13, 10, 36, 49, 49, 54, 13, 10, 97, 97, 97, 97, 97, 97, 97, 97, 97, 97, 97, 97, 97, 97, 97, 97, 97, 97, 97, 97, 97, 97, 97, 97, 97, 97, 97, 97, 97, 97, 97, 97, 97, 97, 97, 97, 97, 97, 97, 97, 97, 97, 97, 97, 97, 97, 97, 97, 97, 97, 97, 97, 97, 97, 97, 97, 97, 97, 97, 97, 97, 97, 97, 97, 97, 97, 97, 97, 97, 97, 97, 97, 97, 97, 97, 97, 97, 97, 97, 97, 97, 97, 97, 97, 97, 97, 97, 97, 97, 97, 97, 97, 97, 97, 97, 97, 97, 97, 97, 97, 97, 97, 97, 97, 97, 97, 97, 97, 97, 97, 97, 97, 97, 97, 97, 97, 13, 10, 42, 49, 13, 10, 36, 52, 13, 10, 65, 85, 84, 72, 13, 10>>
\* AUTH and a frame with an unknown tag byte.
STREAM_AUTH_BAD_TAG == <<42, 49, 13, 10, 36, 52, 13, 10, 65, 85, 84, 72, 13, 10, 63, 120, 13, 10>>
\* HELLO 3, an Integer frame and AUTH.
STREAM_HELLO_INTEGER == <<42, 50, 13, 10, 36, 53, 13, 10, 72, 101, 76, 76, 111, 13, 10, 36, 49, 13, 10, 51, 13, 10, 58, 53, 13, 10, 42, 49, 13, 10, 36, 52, 13, 10, 65, 85, 84, 72, 13, 10>>

ConnStreams == {STREAM_PIPELINED, STREAM_NEXT_PING, STREAM_LONG_BULK,
                STREAM_AUTH_LONG_LINE, STREAM_FULL_FRAME, STREAM_AUTH_BAD_TAG,
                STREAM_HELLO_INTEGER}

\* The most bytes one read hands over.
ChunkSizes == {1, 2, 14, 128}

Min(a, b) == IF a < b THEN a ELSE b

\* The session after Connection::new, its peer about to send a stream.
InitConnSession ==
    /\ MACHINE = DEFAULT_MACHINE
    /\ LAST_ID = 0
    /\ clock = 0
    /\ closing = FALSE
    /\ pc = [s \in ConnSessions |-> "read"]
    /\ exit = [s \in ConnSessions |-> "none"]
    /\ protocol = [s \in ConnSessions |-> "RESP2"]
    /\ resp = [s \in ConnSessions |-> NoFrame]
    /\ last_id = [s \in ConnSessions |-> 0]
    /\ now = [s \in ConnSessions |-> 0]
    /\ nreq = [s \in ConnSessions |-> 0]
    /\ req = [s \in ConnSessions |-> NoFrame]
    /\ out = [s \in ConnSessions |-> NoFrame]
    /\ proto0 = [s \in ConnSessions |-> "RESP2"]
    /\ hello = [s \in ConnSessions |-> "RESP2"]
    /\ start = [s \in ConnSessions |-> 0]
    /\ trace = <<>>
    /\ buffer = [s \in ConnSessions |-> <<>>]
    /\ stream \in [ConnSessions -> ConnStreams]
    /\ sent = [s \in ConnSessions |-> 0]
    /\ taken = [s \in ConnSessions |-> <<>>]
    /\ written = [s \in ConnSessions |-> <<>>]
    /\ NoCodec

InitConn == InitConnSession /\ NoServer

\* The branches of the select of handle are polled only there, not while
\* the reply is computed or written.
AtSelectOrWrite(p) == p \in {"read", "await", "write"}

AtSelect(p) == p \in {"read", "await"}

\* Command::from_frame gave cmd: an error ends the session, NEXT calls
\* next_id, any other command has its reply computed by apply.
Dispatch(s, cmd) ==
    IF cmd.kind = "Err"
    THEN Drop(s, "command:InvalidData")
    ELSE IF cmd.kind = "NEXT"
    THEN /\ pc' = [pc EXCEPT ![s] = "load"]
         /\ UNCHANGED <<exit, protocol, resp, nreq, out, proto0, hello>>
    ELSE /\ pc' = [pc EXCEPT ![s] = "write"]
         /\ resp' = [resp EXCEPT ![s] = ApplyReply(cmd, protocol[s])]
         /\ protocol' = [protocol EXCEPT ![s] = ApplyProtocol(cmd, protocol[s])]
         /\ UNCHANGED <<exit, nreq, out, proto0, hello>>

\* What handle does with the result r of parse_frame in read_frame: on a
\* frame, from_frame and apply; on an error, return; on None, read_buf.
ReadFrameResult(s, r) ==
    /\ buffer' = [buffer EXCEPT ![s] = r.buffer]
    /\ IF r.kind = "None"
       THEN /\ pc' = [pc EXCEPT ![s] = "await"]
            /\ UNCHANGED <<exit, protocol, resp, nreq, out, proto0, hello, taken>>
       ELSE IF r.kind = "Err"
       THEN /\ Drop(s, IF r.err = "InvalidData" THEN "read:InvalidData"
                       ELSE "read:NotFound")
            /\ UNCHANGED taken
       ELSE /\ taken' = [taken EXCEPT ![s] = Append(@, r.frame)]
            /\ Dispatch(s, from_frame(r.frame))

\* One pass of the loop of read_frame over the buffer contents buf.
ReadFramePass(s, buf) == ReadFrameResult(s, parse_frame(buf))

\* The read_frame branch of the select is polled: read_frame starts with
\* parse_frame on what the buffer holds.
ConnPoll(s) ==
    /\ pc[s] = "read"
    /\ ReadFramePass(s, buffer[s])
    /\ UNCHANGED <<stream, sent, written>>
    /\ UNCHANGED <<LAST_ID, MACHINE, clock, closing, last_id, now, req, start, trace>>
    /\ UNCHANGED <<srvVars, codecVars>>

\* read_buf appends the bytes of one read to the buffer, at most chunk of
\* them, and the loop of read_frame goes round.
ConnRead(s, chunk) ==
    /\ pc[s] = "await"
    /\ sent[s] < Len(stream[s])
    /\ LET n == Min(chunk, Min(Len(stream[s]) - sent[s], SpareCapacity(buffer[s]))) IN
       /\ sent' = [sent EXCEPT ![s] = @ + n]
       /\ ReadFramePass(s, buffer[s] \o SubSeq(stream[s], sent[s] + 1, sent[s] + n))
    /\ UNCHANGED <<stream, written>>
    /\ UNCHANGED <<LAST_ID, MACHINE, clock, closing, last_id, now, req, start, trace>>
    /\ UNCHANGED <<srvVars, codecVars>>

\* read_frame taking every end of the stream for a clean one.
EofResultAlwaysClean(buf) == "eof"

\* What read_frame returns when read_buf yields 0: Ok(None), on which handle
\* returns Ok, when the buffer is empty, and Err(ConnectionReset) when not.
EofResult(buf) == IF buf = <<>> THEN "eof" ELSE "read:ConnectionReset"

\* read_buf yields 0: the peer has closed.  read_frame returns Ok(None) when
\* the buffer is empty and Err(ConnectionReset) when it is not.
ConnEof(s) ==
    /\ pc[s] = "await"
    /\ sent[s] = Len(stream[s])
    /\ Drop(s, EofResult(buffer[s]))
    /\ UNCHANGED <<buffer, stream, sent, taken, written>>
    /\ UNCHANGED <<LAST_ID, MACHINE, clock, closing, last_id, now, req, start, trace>>
    /\ UNCHANGED <<srvVars, codecVars>>

\* The closing.changed() branch of the select wins.
ConnShutdown(s) ==
    /\ AtSelect(pc[s])
    /\ closing
    /\ Drop(s, "shutdown")
    /\ UNCHANGED <<buffer, stream, sent, taken, written>>
    /\ UNCHANGED <<LAST_ID, MACHINE, clock, closing, last_id, now, req, start, trace>>
    /\ UNCHANGED <<srvVars, codecVars>>

\* write_frame succeeds: the reply is written and flushed, and handle goes
\* round its loop.
ConnWrite(s) ==
    /\ pc[s] = "write"
    /\ written' = [written EXCEPT ![s] = Append(@, resp[s])]
    /\ resp' = [resp EXCEPT ![s] = NoFrame]
    /\ pc' = [pc EXCEPT ![s] = "read"]
    /\ UNCHANGED <<buffer, stream, sent, taken>>
    /\ UNCHANGED <<LAST_ID, MACHINE, clock, closing, exit, protocol, last_id,
                   now, nreq, req, out, proto0, hello, start, trace>>
    /\ UNCHANGED <<srvVars, codecVars>>

\* write_frame fails.
ConnWriteError(s) ==
    /\ pc[s] = "write"
    /\ Drop(s, "write:Err")
    /\ UNCHANGED <<buffer, stream, sent, taken, written>>
    /\ UNCHANGED <<LAST_ID, MACHINE, clock, closing, last_id, now, req, start, trace>>
    /\ UNCHANGED <<srvVars, codecVars>>

NextConn ==
    \/ Interrupt
    \/ \E s \in ConnSessions : ConnPoll(s)
    \/ \E s \in ConnSessions : \E chunk \in ChunkSizes : ConnRead(s, chunk)
    \/ \E s \in ConnSessions : ConnEof(s)
    \/ \E s \in ConnSessions : ConnShutdown(s)
    \/ \E s \in ConnSessions : ConnWrite(s)
    \/ \E s \in ConnSessions : ConnWriteError(s)
    \/ \E s \in ConnSessions : NextIdStep(s)

SpecConn == InitConn /\ [][NextConn]_vars

(***************************************************************************)
(* main.rs: the session inside its spawned task, which holds the permit    *)
(* acquired for it and, in its Handler, a clone of conn_closed_tx.         *)
(***************************************************************************)
\* The state after tokio::spawn for the first connection accepted.
InitConnTask ==
    /\ InitConnSession
    /\ main_pc = "acquire"
    /\ semaphore = MaxClients - 1
    /\ permit = ConnSessions
    /\ closed_tx = {0} \cup ConnSessions
    /\ recv = "none"

NextConnTask ==
    \/ NextConn
    \/ \E s \in ConnSessions : TaskDropPermit(s)
    \/ \E s \in ConnSessions : TaskEnd(s)

\* Once handle has returned the task runs to its end without awaiting.
FairConnTask ==
    \A s \in ConnSessions :
        /\ WF_vars(TaskDropPermit(s))
        /\ WF_vars(TaskEnd(s))

SpecConnTask == InitConnTask /\ [][NextConnTask]_vars /\ FairConnTask


(***************************************************************************)
(* The codec on its own: a frame is serialized by Frame::as_bytes, the     *)
(* bytes arrive one at a time and Frame::parse runs on what has arrived,   *)
(* as read_frame runs it after every read.                                 *)
(***************************************************************************)
TEXT_OK == <<79, 75>>  \* "OK"
TEXT_ERR_x == <<69, 82, 82, 32, 120>>  \* "ERR x"
BIN_CRLF_INSIDE == <<97, 13, 10, 98>>  \* "a\r\nb"
BIN_CRLF == <<13, 10>>  \* "\r\n"
BIN_TWELVE == <<104, 101, 108, 108, 111, 32, 119, 111, 114, 108, 100, 33>>  \* "hello world!"

\* Frames without elements.
CodecLeaves ==
    {SimpleString(<<>>), SimpleString(TEXT_OK), SimpleString(VERB_e_acute),
     SimpleError(<<>>), SimpleError(TEXT_ERR_x),
     Integer(0), Integer(-12), Integer(4096),
     BulkString(<<>>), BulkString(BIN_CRLF_INSIDE), BulkString(BIN_CRLF),
     BulkString(VERB_NOT_UTF8), BulkString(BIN_TWELVE),
     Array(<<>>), Map(<<>>)}

\* Arrays and Maps of leaves.
CodecFlat ==
    {Array(<<a>>) : a \in CodecLeaves}
    \cup {Array(<<a, b>>) : a, b \in CodecLeaves}
    \cup {Map(<<<<a, b>>>>) : a, b \in CodecLeaves}

\* Arrays and Maps with Arrays and Maps in them.
CodecNested ==
    {Array(<<x, Integer(-12)>>) : x \in CodecFlat}
    \cup {Map(<<<<SimpleString(TEXT_OK), x>>, <<Integer(0), Array(<<>>)>>>>) : x \in CodecFlat}

CodecFrames == CodecLeaves \cup CodecFlat \cup CodecNested

RAW_UNKNOWN_TAG == <<63, 51, 13, 10>>  \* "?3\r\n"
RAW_INTEGER_abc == <<58, 97, 98, 99, 13, 10>>  \* ":abc\r\n"
RAW_INTEGER_EMPTY == <<58, 13, 10>>  \* ":\r\n"
RAW_LENGTH_x == <<36, 120, 13, 10>>  \* "$x\r\n"
RAW_LENGTH_NEGATIVE == <<36, 45, 49, 13, 10>>  \* "$-1\r\n"
RAW_COUNT_x == <<42, 49, 120, 13, 10>>  \* "*1x\r\n"
RAW_MAP_COUNT_x == <<37, 120, 13, 10>>  \* "%x\r\n"
RAW_NESTED_UNKNOWN_TAG == <<42, 50, 13, 10, 58, 49, 13, 10, 63, 13, 10>>  \* "*2\r\n:1\r\n?\r\n"
RAW_BULK_5_hi == <<36, 53, 13, 10, 104, 105, 13, 10>>  \* "$5\r\nhi\r\n"
RAW_BULK_5_hi_MORE == <<36, 53, 13, 10, 104, 105, 13, 10, 43, 79, 75, 13, 10>>  \* "$5\r\nhi\r\n+OK\r\n"
RAW_BULK_2_hiXY == <<36, 50, 13, 10, 104, 105, 88, 89>>  \* "$2\r\nhiXY"
RAW_BULK_0_XY == <<36, 48, 13, 10, 88, 89>>  \* "$0\r\nXY"

\* Bytes with a tag byte that is none of + - : $ * %.
UnknownTagInputs == {RAW_UNKNOWN_TAG, RAW_NESTED_UNKNOWN_TAG}

\* Bytes with a terminated Integer, length or count line that is no decimal
\* number of the type read.
NotANumberInputs == {RAW_INTEGER_abc, RAW_INTEGER_EMPTY, RAW_LENGTH_x,
                     RAW_LENGTH_NEGATIVE, RAW_COUNT_x, RAW_MAP_COUNT_x}

\* A BulkString header, the declared number of payload bytes, and then two
\* bytes that are not CR LF.
TerminatorMismatchInputs == {RAW_BULK_5_hi_MORE, RAW_BULK_2_hiXY, RAW_BULK_0_XY}

RawInputs == UnknownTagInputs \cup NotANumberInputs \cup TerminatorMismatchInputs
             \cup {RAW_BULK_5_hi}

\* A frame to serialize, or raw bytes on their way; nothing has arrived.
InitCodec ==
    /\ \/ cframe \in CodecFrames /\ cwire = <<>>
       \/ cframe = NoFrame /\ cwire \in RawInputs
    /\ cgot = 0
    /\ cres = FrameParse(<<>>, 0)
    /\ MACHINE = DEFAULT_MACHINE
    /\ LAST_ID = 0
    /\ clock = 0
    /\ closing = FALSE
    /\ pc = <<>>
    /\ exit = <<>>
    /\ protocol = <<>>
    /\ resp = <<>>
    /\ last_id = <<>>
    /\ now = <<>>
    /\ nreq = <<>>
    /\ req = <<>>
    /\ out = <<>>
    /\ proto0 = <<>>
    /\ hello = <<>>
    /\ start = <<>>
    /\ trace = <<>>
    /\ NoServer
    /\ NoConn

\* write_frame's frame.as_bytes(): the frame is serialized.
Serialize ==
    /\ cframe # NoFrame
    /\ cwire = <<>>
    /\ cwire' = as_bytes(cframe)
    /\ UNCHANGED <<cframe, cgot, cres>>
    /\ UNCHANGED <<LAST_ID, MACHINE, clock, closing, pc, exit, protocol, resp,
                   last_id, now, nreq, req, out, proto0, hello, start, trace>>
    /\ UNCHANGED <<srvVars, connVars>>

\* One more byte has arrived and Frame::parse runs on the bytes so far, with
\* a new cursor at their start.
Arrive ==
    /\ cgot < Len(cwire)
    /\ cgot' = cgot + 1
    /\ cres' = FrameParse(SubSeq(cwire, 1, cgot + 1), 0)
    /\ UNCHANGED <<cframe, cwire>>
    /\ UNCHANGED <<LAST_ID, MACHINE, clock, closing, pc, exit, protocol, resp,
                   last_id, now, nreq, req, out, proto0, hello, start, trace>>
    /\ UNCHANGED <<srvVars, connVars>>

NextCodec ==
    \/ Serialize
    \/ Arrive

SpecCodec == InitCodec /\ [][NextCodec]_vars

(***************************************************************************)
(* Properties.                                                             *)
(***************************************************************************)
OkAt(i) == trace[i].kind = "Ok"

TraceIdx == 1 .. Len(trace)

\* The millisecond timestamp in an ID: bits 63..20.
TimestampOf(id) == id \div 1048576

HasPrefix(v, p) == Len(v) >= Len(p) /\ SubSeq(v, 1, Len(p)) = p

\* C1: no two calls of next_id that return Ok return the same ID, whatever
\* the interleaving of the callers' load, clock-read and compare-and-set steps.
C1_UniqueIds ==
    \A i, j \in TraceIdx : (i # j /\ OkAt(i) /\ OkAt(j)) => trace[i].id # trace[j].id

\* Two different callers have each been given an ID of the same millisecond.
C1_Witness ==
    \E i, j \in TraceIdx :
        /\ i < j /\ OkAt(i) /\ OkAt(j)
        /\ trace[i].by # 0 /\ trace[j].by # 0 /\ trace[i].by # trace[j].by
        /\ TimestampOf(trace[i].id) = TimestampOf(trace[j].id)

\* C2: the last-ID cell holds the ID of the latest successful compare-and-set
\* (its initial value before the first) and each successful compare-and-set
\* stores a strictly larger value, so the IDs are strictly increasing in the
\* order of their return: for each caller, and for a call that started after
\* another had returned.
C2_StrictlyIncreasing ==
    /\ \A i \in TraceIdx : OkAt(i) => (\A j \in TraceIdx : (j < i /\ OkAt(j)) => trace[j].id < trace[i].id)
    /\ \A i \in TraceIdx : (OkAt(i) /\ trace[i].by # 0) => trace[i].id > 0
    /\ LAST_ID = (IF \E i \in TraceIdx : OkAt(i)
                  THEN trace[CHOOSE i \in TraceIdx :
                                 OkAt(i) /\ \A j \in TraceIdx : OkAt(j) => j <= i].id
                  ELSE 0)
    /\ \A s \in Sessions : \A i, j \in TraceIdx :
           (i < j /\ OkAt(i) /\ OkAt(j) /\ trace[i].by = s /\ trace[j].by = s)
               => trace[i].id < trace[j].id
    /\ \A s \in Sessions : \A i, j \in TraceIdx :
           (OkAt(i) /\ OkAt(j) /\ i <= start[s] /\ j > start[s] /\ trace[j].by = s)
               => trace[i].id < trace[j].id

\* A caller has been given two IDs and another caller one in between.
C2_Witness ==
    \E i, j, k \in TraceIdx :
        /\ i < j /\ j < k /\ OkAt(i) /\ OkAt(j) /\ OkAt(k)
        /\ trace[i].by # 0 /\ trace[i].by = trace[k].by
        /\ trace[j].by # 0 /\ trace[j].by # trace[i].by

\* C3: every ID returned by next_id is non-negative (top bit of the word 0)
\* and carries the configured machine ID in bits 19..12.
C3_MachineField ==
    \A i \in TraceIdx : (OkAt(i) /\ trace[i].by # 0) =>
        /\ trace[i].id >= 0
        /\ trace[i].id < WordModulus \div 2
        /\ (trace[i].id \div 4096) % 256 = MACHINE

\* An ID with the largest sequence number and the largest machine ID has been
\* returned.
C3_Witness ==
    \E i \in TraceIdx :
        /\ OkAt(i) /\ trace[i].by # 0
        /\ trace[i].id % 4096 = 4095
        /\ MACHINE = 255

\* C4: a call of next_id that reads a clock value below the timestamp of the
\* last ID it loaded returns "Clock moved backwards" and leaves the last-ID
\* cell alone; the reply to NEXT is then that SimpleError, after it the session
\* is open and reads on, and IDs returned later exceed all IDs returned before.
C4_ErrStep ==
    \A s \in Sessions :
        (pc[s] = "clock" /\ pc'[s] # "clock" /\ clock < TimestampOf(last_id[s]))
            => /\ pc'[s] = "write"
               /\ resp'[s] = SimpleError(MSG_CLOCK)
               /\ LAST_ID' = LAST_ID
               /\ trace' = Append(trace, [by |-> s, kind |-> "Err", id |-> 0])

C4_ErrState ==
    /\ \A s \in Sessions :
           (out[s].tag = "SimpleError" /\ out[s].val = MSG_CLOCK)
               => pc[s] = "read" /\ exit[s] = "none"
    /\ \A i, j \in TraceIdx : (i < j /\ OkAt(i) /\ OkAt(j)) => trace[i].id < trace[j].id
    /\ \A i \in TraceIdx : ~OkAt(i) => trace[i].by # 0

C4_ClockMovedBackwards == []C4_ErrState /\ [][C4_ErrStep]_vars

\* A session was answered "Clock moved backwards" and later, on a further
\* NEXT, was answered an ID.
C4_Witness ==
    \E s \in Sessions : \E i, j \in TraceIdx :
        /\ i < j /\ ~OkAt(i) /\ trace[i].by = s
        /\ OkAt(j) /\ trace[j].by = s
        /\ out[s] = Integer(trace[j].id)

NonArrayTags == {"SimpleString", "SimpleError", "Integer", "BulkString", "Map"}

\* C5: a top-level frame that is not an Array is answered with a SimpleError
\* and the session goes on reading; the connection is not closed.
C5_NonArrayAnswered ==
    \A s \in Sessions : req[s].tag \in NonArrayTags =>
        /\ exit[s] = "none"
        /\ pc[s] \in {"write", "read"}
        /\ pc[s] = "write" => resp[s].tag = "SimpleError"
        /\ pc[s] = "read" => out[s].tag = "SimpleError"

\* The verbs among the inputs that are outside {AUTH, CLIENT, HELLO, NEXT, SELECT}.
UnknownVerbs == {VERB_PING, VERB_e_acute, VERB_EMPTY}

IsUnknownVerbRequest(frame) ==
    /\ frame.tag = "Array"
    /\ Len(frame.val) >= 1
    /\ frame.val[1].tag = "BulkString"
    /\ frame.val[1].val \in UnknownVerbs

TEXT_ERR_UNKNOWN == <<69, 82, 82, 32, 85, 110, 107, 110, 111, 119, 110, 32, 99, 111, 109, 109, 97, 110, 100>>  \* "ERR Unknown command"

U8Texts == {ARG_2, ARG_3, ARG_9, ARG_PLUS3}

\* C7: HELLO with an argument that is no BulkString or no unsigned 8-bit
\* integer is answered with exactly SimpleError("Protocol version is not an
\* integer or out of range"), HELLO with a number outside {2,3} with exactly
\* SimpleError("Unsupported protocol version"); neither starts with "ERR ".
C7_HelloErrors ==
    \A s \in Sessions :
        (IsHelloRequest(req[s]) /\ Len(req[s].val) >= 2 /\ out[s] # NoFrame) =>
            LET arg == req[s].val[2]
                isU8 == arg.tag = "BulkString" /\ arg.val \in U8Texts
            IN /\ ~isU8 => out[s] = SimpleError(MSG_NOT_INT)
               /\ (isU8 /\ RequestedProtocol(req[s]) = "none")
                      => out[s] = SimpleError(MSG_UNSUPPORTED)

\* C8: every SimpleError reply to a command other than HELLO begins with
\* "ERR ", the reply of NEXT on a failure of the ID generator included.
C8_ErrPrefix ==
    \A s \in Sessions :
        (out[s].tag = "SimpleError" /\ ~IsHelloRequest(req[s]))
            => HasPrefix(out[s].val, <<69, 82, 82, 32>>)

\* C9: a session's protocol version is the version of the last HELLO with a
\* valid argument on that session, RESP2 if there was none; no other command
\* and no command on another session changes it.
C9_ProtocolFollowsHello ==
    \A s \in Sessions : protocol[s] = hello[s]

\* A session has gone from RESP2 to RESP3 and back to RESP2 while another
\* session is at RESP3.
C9_Witness ==
    \E s, t \in Sessions :
        /\ s # t
        /\ protocol[s] = "RESP2" /\ proto0[s] = "RESP3" /\ out[s] # NoFrame
        /\ protocol[t] = "RESP3"

\* C10: a successful HELLO replies in the shape of the protocol in force after
\* the switch it asks for (the current one when it has no argument): a
\* 6-element Array ending in Integer(2) for RESP2, a 3-pair Map ending in
\* ("proto", Integer(3)) for RESP3.
C10_HelloReplyShape ==
    \A s \in Sessions : (IsHelloRequest(req[s]) /\ out[s] # NoFrame) =>
        LET asked == RequestedProtocol(req[s])
            after == IF asked # "none" THEN asked ELSE proto0[s]
        IN (Len(req[s].val) = 1 \/ asked # "none") =>
               /\ protocol[s] = after
               /\ after = "RESP2" =>
                      /\ out[s].tag = "Array"
                      /\ Len(out[s].val) = 6
                      /\ out[s].val[6] = Integer(2)
               /\ after = "RESP3" =>
                      /\ out[s].tag = "Map"
                      /\ Len(out[s].val) = 3
                      /\ out[s].val[3] = <<SimpleString(STR_proto), Integer(3)>>

\* After HELLO 3 a HELLO without argument has been answered with the Map.
C10_Witness ==
    \E s \in Sessions :
        /\ IsHelloRequest(req[s]) /\ Len(req[s].val) = 1
        /\ proto0[s] = "RESP3"
        /\ out[s].tag = "Map"

\* C15: for every frame f, Frame::parse on f.as_bytes() succeeds, yields a
\* frame equal to f and leaves the cursor at the end of the bytes.
C15_RoundTrip ==
    (cframe # NoFrame /\ cwire # <<>> /\ cgot = Len(cwire))
        => cres = ParseOk(cframe, Len(cwire))

\* The serialization of an Array that holds a Map and a negative Integer has
\* arrived whole and has been parsed.
C15_Witness ==
    /\ cframe.tag = "Array"
    /\ Len(cframe.val) = 2
    /\ cframe.val[1].tag = "Map"
    /\ cframe.val[1].val # <<>>
    /\ cframe.val[2] = Integer(-12)
    /\ cwire # <<>>
    /\ cgot = Len(cwire)
    /\ cres.kind = "Ok"

\* C16: Frame::parse on a strict prefix of a frame's serialization, the empty
\* prefix included, reports NotFound, neither success nor InvalidData; once
\* the remaining bytes are there, parsing the buffer yields the frame.
C16_PrefixIncomplete ==
    cframe # NoFrame =>
        /\ cgot < Len(as_bytes(cframe)) => cres = ParseErr("NotFound")
        /\ (cwire # <<>> /\ cgot = Len(cwire)) =>
               (cres.kind = "Ok" /\ cres.val = cframe)

\* All of a BulkString's serialization but its last byte has arrived, the
\* whole payload included.
C16_Witness ==
    /\ cframe = BulkString(BIN_CRLF_INSIDE)
    /\ cwire # <<>>
    /\ cgot = Len(cwire) - 1
    /\ cres.kind = "NotFound"

\* C17: Frame::parse reports InvalidData, neither NotFound nor success, for
\* an unknown tag byte, for a terminated Integer, length or count line that
\* is no decimal number, and for a BulkString whose declared payload is there
\* but is not followed by CR LF.
C17_Malformed ==
    (cframe = NoFrame /\ cgot = Len(cwire)
     /\ cwire \in UnknownTagInputs \cup NotANumberInputs \cup TerminatorMismatchInputs)
        => cres.kind = "InvalidData"

\* The sequence number in an ID: bits 11..0.
SequenceOf(id) == id % 4096

\* The machine ID in an ID: bits 19..12.
MachineOf(id) == (id \div 4096) % 256

\* The candidate a caller is about to compare-and-set.
C18_Candidate ==
    \A s \in Sessions : pc[s] = "cas" =>
        LET next_id == NextIdCandidate(last_id[s], now[s], MACHINE).next_id IN
        /\ now[s] >= TimestampOf(last_id[s])
        /\ TimestampOf(next_id) = now[s]
        /\ MachineOf(next_id) = MACHINE
        /\ now[s] = TimestampOf(last_id[s]) =>
               /\ SequenceOf(next_id) = SequenceOf(last_id[s]) + 1
               /\ SequenceOf(last_id[s]) < 4095
        /\ now[s] > TimestampOf(last_id[s]) => SequenceOf(next_id) = 0

\* Two IDs of one millisecond differ in the sequence number alone, which grows.
C18_NoWrap ==
    \A i, j \in TraceIdx :
        (i < j /\ OkAt(i) /\ OkAt(j)
         /\ TimestampOf(trace[i].id) = TimestampOf(trace[j].id))
            => /\ SequenceOf(trace[i].id) < SequenceOf(trace[j].id)
               /\ MachineOf(trace[i].id) = MachineOf(trace[j].id)

\* An ID is emitted with the sequence number after the last one's in the same
\* millisecond, or with sequence number 0 in a later one; a caller that finds
\* sequence number 4095 used in the millisecond it reads emits nothing and
\* starts over.
C18_Step ==
    /\ LAST_ID' # LAST_ID =>
           /\ MachineOf(LAST_ID') = MACHINE
           /\ \/ /\ TimestampOf(LAST_ID') = TimestampOf(LAST_ID)
                 /\ SequenceOf(LAST_ID') = SequenceOf(LAST_ID) + 1
              \/ /\ TimestampOf(LAST_ID') > TimestampOf(LAST_ID)
                 /\ SequenceOf(LAST_ID') = 0
    /\ \A s \in Sessions :
           (/\ pc[s] = "clock" /\ pc'[s] # "clock"
            /\ clock = TimestampOf(last_id[s])
            /\ SequenceOf(last_id[s]) = 4095)
               => pc'[s] = "load" /\ LAST_ID' = LAST_ID /\ trace' = trace

\* C18: when the last ID is of the millisecond the clock reads, the candidate
\* has the last sequence number plus one and the same timestamp; when the
\* clock reads a later millisecond the candidate's sequence number is 0; when
\* sequence number 4095 is used in the current millisecond no ID is emitted
\* and the call retries.  The sequence number never wraps to 0 within a
\* millisecond and never carries into the machine or timestamp bits.
C18_SequenceStep == [](C18_Candidate /\ C18_NoWrap) /\ [][C18_Step]_vars

\* Sequence number 4095 of a millisecond has been given out, a caller has
\* waited for the next millisecond and has been given its sequence number 0.
C18_Witness ==
    \E i, j \in TraceIdx :
        /\ i < j /\ OkAt(i) /\ OkAt(j)
        /\ trace[i].by # 0 /\ trace[j].by # 0
        /\ SequenceOf(trace[i].id) = 4095
        /\ SequenceOf(trace[j].id) = 0
        /\ TimestampOf(trace[j].id) > TimestampOf(trace[i].id)

\* A call of next_id by the session is under way.
InCall(s) == pc[s] \in {"load", "clock", "cas"}

\* The largest number of results of next_id in a run.
MaxResults == NSessions * MaxReq + 1

\* Some call that is under way returns: the results grow by one.
C19_SomeCallReturns ==
    \A n \in 0 .. MaxResults :
        ((\E s \in Sessions : InCall(s)) /\ Len(trace) = n) ~> (Len(trace) > n)

\* A caller that runs alone returns.
C19_AloneReturns ==
    \A s \in Sessions :
        (InCall(s) /\ \A t \in Sessions \ {s} : ~InCall(t) /\ nreq[t] = MaxReq)
            ~> (pc[s] = "write")

\* A compare-and-set fails only when the cell no longer holds the value the
\* caller loaded, that is, after another caller's compare-and-set succeeded.
C19_FailsByContention ==
    \A s \in Sessions :
        (pc[s] = "cas" /\ pc'[s] = "load") => LAST_ID # last_id[s]

\* A failed compare-and-set changes neither the cell nor the results and
\* sends the caller back to the load.
C19_FailureRetries ==
    \A s \in Sessions :
        (pc[s] = "cas" /\ pc'[s] # "cas" /\ LAST_ID' = LAST_ID)
            => pc'[s] = "load" /\ trace' = trace

\* With a clock that does not go back every result is an ID.
C19_AllOk == \A i \in TraceIdx : OkAt(i)

\* C19 as stated: with a wall clock that never goes back and always reaches a
\* later millisecond and with fair scheduling, a caller running alone returns,
\* a compare-and-set fails only because another caller's succeeded, and some
\* pending call always eventually returns an ID.
C19_ProgressAsStated ==
    /\ C19_SomeCallReturns
    /\ C19_AloneReturns
    /\ [][C19_FailsByContention]_vars

\* C19, amended: a compare-and-set fails because another caller's succeeded
\* or, being compare_exchange_weak, spuriously; a failure changes nothing and
\* the caller retries.  With a wall clock that never goes back and always
\* reaches a later millisecond, fair scheduling, and spurious failures that do
\* not go on forever, a caller running alone returns and some pending call
\* always eventually returns an ID.
C19_Progress ==
    /\ C19_SomeCallReturns
    /\ C19_AloneReturns
    /\ []C19_AllOk
    /\ [][C19_FailureRetries]_vars

\* A caller that found the sequence numbers of a millisecond used up has
\* returned with the first ID of the next millisecond while another call is
\* under way.
C19_Witness ==
    \E s, t \in Sessions :
        /\ s # t
        /\ pc[s] = "write"
        /\ resp[s].tag = "Integer"
        /\ SequenceOf(resp[s].val) = 0
        /\ TimestampOf(resp[s].val) > 0
        /\ \E i \in TraceIdx : OkAt(i) /\ SequenceOf(trace[i].id) = 4095
        /\ InCall(t)

\* Handler::handle is running in the task.
Live(s) == pc[s] \in {"read", "write", "load", "clock", "cas"}

LiveTasks == {s \in Tasks : Live(s)}

\* The task has been spawned and is not over.
Running(s) == pc[s] \in {"read", "write", "load", "clock", "cas", "done", "released"}

\* ctrl_c() has resolved.
Interrupted == main_pc \in {"signal", "release", "recv", "exited"}

\* The permits are all accounted for, and a live session holds one.
C11_Permits ==
    /\ Cardinality(LiveTasks) <= MaxClients
    /\ semaphore >= 0
    /\ semaphore + Cardinality(permit) = MaxClients
    /\ \A s \in Tasks : Live(s) => s \in permit
    /\ \A s \in Tasks : pc[s] \in {"idle", "released", "ended", "killed"} => s \notin permit
    /\ 0 \in permit <=> main_pc = "accept"

\* A session starts with the permit the accept loop acquired, when fewer
\* than max-clients sessions are live; a permit goes back when a session has
\* ended, when the accept loop is dropped or when the process exits.
C11_Step ==
    /\ \A s \in Tasks :
           (~Live(s) /\ Live(s)') =>
               /\ 0 \in permit
               /\ s \in permit'
               /\ Cardinality(LiveTasks) < MaxClients
    /\ \A s \in Tasks :
           (s \in permit /\ s \notin permit') =>
               (pc[s] = "done" \/ main_pc' = "exited")
    /\ semaphore' > semaphore =>
           \/ \E s \in Tasks : pc[s] = "done" /\ pc'[s] = "released"
                               /\ semaphore' = semaphore + 1
           \/ main_pc' = "signal" /\ 0 \in permit /\ semaphore' = semaphore + 1
           \/ main_pc' = "exited"

\* C11: the number of live sessions is at most max-clients at every moment:
\* the accept loop acquires a permit before each accept, the spawned session
\* holds it for its whole lifetime and gives it back exactly once when it
\* ends, however it ends.
C11_AdmissionBound == []C11_Permits /\ [][C11_Step]_vars

\* max-clients sessions are live and the accept loop waits for a permit that
\* an earlier session has held and given back.
C11_Witness ==
    /\ Cardinality(LiveTasks) = MaxClients
    /\ main_pc = "acquire"
    /\ semaphore = 0
    /\ \E s \in Tasks : pc[s] = "ended"

\* After the interrupt no session starts and main does not go back to
\* accepting.
C12_NoNewSession ==
    Interrupted =>
        /\ Interrupted'
        /\ \A s \in Tasks : pc[s] \in {"idle", "ended"} => pc'[s] = pc[s]

\* A session at its select can take the shutdown branch once closing_tx is
\* dropped, and the timeout of the drain wait can always elapse.
C12_CanLeave ==
    /\ \A s \in Tasks : (closing /\ pc[s] = "read") => ENABLED ObserveShutdown(s)
    /\ \A s \in Tasks : exit[s] = "shutdown" => (closing /\ ~Live(s))
    /\ main_pc = "recv" => ENABLED RecvTimeout

\* C12: after the interrupt no new session is started; every session that
\* waits for a frame observes the closed shutdown broadcast, leaves its loop
\* and terminates; the drain wait completes and the process exits, at the
\* latest when the timeout elapses.
C12_Shutdown ==
    /\ [][C12_NoNewSession]_vars
    /\ []C12_CanLeave
    /\ \A s \in Tasks : (closing /\ pc[s] = "read") ~> (pc[s] \in {"ended", "killed"})
    /\ Interrupted ~> closing
    /\ closing ~> (main_pc = "exited")

\* Two sessions that were waiting for a frame have left on the shutdown and
\* the drain wait has completed without the timeout.
C12_Witness ==
    /\ main_pc = "exited"
    /\ recv = "closed"
    /\ \E s, t \in Tasks : s # t /\ exit[s] = "shutdown" /\ exit[t] = "shutdown"

\* C13: the liveness receiver observes closure only when main has dropped
\* its own sender and every session ever started has terminated: a session
\* holds its sender clone from its creation until it is over, however it
\* ends.  A drain wait that completes without the timeout leaves no session
\* running.
C13_ClosureMeansAllEnded ==
    /\ \A s \in Tasks : Running(s) => s \in closed_tx
    /\ \A s \in Tasks : pc[s] \in {"idle", "ended"} => s \notin closed_tx
    /\ 0 \in closed_tx <=> main_pc \in {"acquire", "accept", "signal", "release"}
    /\ recv = "closed" =>
           /\ main_pc = "exited"
           /\ \A s \in Tasks : pc[s] \in {"idle", "ended"}
    /\ (main_pc = "recv" /\ ENABLED RecvClosed) => \A s \in Tasks : ~Running(s)

\* The drain wait has completed without the timeout after sessions have
\* ended on the shutdown, on a write error and on a frame that is no command.
C13_Witness ==
    /\ recv = "closed"
    /\ \E s, t, u \in Tasks :
           /\ exit[s] = "shutdown"
           /\ exit[t] = "write:Err"
           /\ exit[u] = "command:InvalidData"

(***************************************************************************)
(* The session loop over the byte stream (SpecConn).                       *)
(***************************************************************************)
\* The frames a byte string holds one after the other, up to the first
\* place where no complete well-formed frame starts.
RECURSIVE FramesOf(_)
FramesOf(bytes) ==
    LET r == FrameParse(bytes, 0) IN
    IF bytes = <<>> \/ r.kind # "Ok" THEN <<>>
    ELSE <<r.val>> \o FramesOf(SubSeq(bytes, r.pos + 1, Len(bytes)))

\* The connection's protocol after the first k of the frames were applied.
RECURSIVE ProtocolAfter(_, _)
ProtocolAfter(frames, k) ==
    IF k = 0 THEN "RESP2"
    ELSE LET cmd == from_frame(frames[k]) IN
         IF cmd.kind \in {"Err", "NEXT"} THEN ProtocolAfter(frames, k - 1)
         ELSE ApplyProtocol(cmd, ProtocolAfter(frames, k - 1))

\* reply is the reply the k-th of the frames calls for.
IsReplyTo(reply, frames, k) ==
    LET cmd == from_frame(frames[k]) IN
    /\ cmd.kind # "Err"
    /\ IF cmd.kind = "NEXT"
       THEN \E i \in 1 .. Len(trace) : reply = NextReplyOk(trace[i].id)
       ELSE reply = ApplyReply(cmd, ProtocolAfter(frames, k - 1))

\* A reply is owed: a frame was taken and its reply is not written yet.
ReplyPending(s) == Len(taken[s]) = Len(written[s]) + 1

C14_Order ==
    \A s \in ConnSessions :
        /\ Len(written[s]) <= Len(taken[s])
        /\ Len(taken[s]) <= Len(written[s]) + 1
        /\ Len(taken[s]) <= Len(FramesOf(stream[s]))
        /\ \A k \in 1 .. Len(taken[s]) : taken[s][k] = FramesOf(stream[s])[k]
        /\ \A k \in 1 .. Len(written[s]) : IsReplyTo(written[s][k], taken[s], k)
        /\ pc[s] \in {"load", "clock", "cas", "write"} => ReplyPending(s)
        /\ pc[s] \in {"read", "await"} => ~ReplyPending(s)
        /\ exit[s] \in {"shutdown", "eof"} => ~ReplyPending(s)

C14_ReplyNotPrevented ==
    \A s \in ConnSessions :
        pc[s] = "write" => /\ ENABLED ConnWrite(s)
                           /\ ~ENABLED ConnShutdown(s)

C14_Step ==
    \A s \in ConnSessions :
        /\ Len(taken'[s]) > Len(taken[s]) =>
              /\ Len(written[s]) = Len(taken[s])
              /\ taken'[s] = Append(taken[s], FramesOf(stream[s])[Len(taken[s]) + 1])
        /\ written'[s] # written[s] =>
              /\ ReplyPending(s)
              /\ written'[s] = Append(written[s], resp[s])
              /\ pc'[s] = "read"
        /\ (ReplyPending(s) /\ exit[s] = "none" /\ exit'[s] # "none") =>
              exit'[s] = "write:Err"

\* C14: a session is a loop of reading one frame and writing one reply.  The
\* frames are taken in the order the peer sent them, the k-th reply written
\* is the reply to the k-th frame taken, and it is written before the next
\* frame is taken.  The shutdown signal is looked at only where a frame is
\* awaited: once a frame is taken its reply can be written whether or not
\* shutdown has been signalled, and the session does not end on shutdown
\* while a reply is owed.
C14_ReadWriteLoop ==
    [](C14_Order /\ C14_ReplyNotPrevented) /\ [][C14_Step]_vars

\* Shutdown has been signalled while the reply to the second of two
\* pipelined frames is owed, and the first reply was written.
C14_Witness ==
    \E s \in ConnSessions :
        /\ closing
        /\ pc[s] = "write"
        /\ Len(written[s]) = 1
        /\ Len(taken[s]) = 2

\* The bytes of the frames taken, one after the other.
RECURSIVE BytesOfFrames(_, _)
BytesOfFrames(frames, k) ==
    IF k = 0 THEN <<>> ELSE BytesOfFrames(frames, k - 1) \o as_bytes(frames[k])

\* The bytes received and not yet consumed by a frame.
Unconsumed(s) == SubSeq(stream[s], sent[s] - Len(buffer[s]) + 1, sent[s])

C20_Buffer ==
    \A s \in ConnSessions :
        /\ Len(buffer[s]) <= BUFFER_SIZE
        /\ exit[s] \in {"none", "shutdown", "eof", "write:Err", "read:ConnectionReset"} =>
              /\ Len(buffer[s]) <= sent[s]
              /\ buffer[s] = Unconsumed(s)
              /\ BytesOfFrames(taken[s], Len(taken[s]))
                    = SubSeq(stream[s], 1, sent[s] - Len(buffer[s]))
        /\ pc[s] = "await" =>
              /\ Len(buffer[s]) < BUFFER_SIZE
              /\ FrameParse(buffer[s], 0).kind = "NotFound"

C20_Step ==
    \A s \in ConnSessions :
        LET got == buffer[s] \o SubSeq(stream[s], sent[s] + 1, sent'[s])
            r == FrameParse(got, 0)
        IN  (pc[s] \in {"read", "await"} /\ pc'[s] # pc[s]
                  /\ exit'[s] \notin {"shutdown", "eof", "read:ConnectionReset"}) =>
            /\ Len(got) <= BUFFER_SIZE
            /\ pc[s] = "read" => sent'[s] = sent[s]
            /\ r.kind = "Ok" =>
                  /\ taken'[s] = Append(taken[s], r.val)
                  /\ buffer'[s] = SubSeq(got, r.pos + 1, Len(got))
            /\ (r.kind # "Ok" /\ Len(got) = BUFFER_SIZE) =>
                  /\ exit'[s] \in {"read:NotFound", "read:InvalidData"}
                  /\ pc'[s] = "done"
                  /\ taken'[s] = taken[s]

\* C20: the read buffer never holds more than 128 bytes.  When it holds 128
\* bytes that do not start with a complete frame the session ends with an
\* error and reads no more.  When a frame is parsed off the front, the
\* buffer is left with exactly the bytes after it, in their order, so that
\* the frames taken and the buffer together are the bytes received; a frame
\* already in the buffer is taken without another read.
C20_BoundedBuffer ==
    []C20_Buffer /\ [][C20_Step]_vars

\* A session took a frame, answered it, and ended with an error when the
\* bytes behind the frame, moved to the front of the buffer, had grown to
\* 128 without a complete frame among them.
C20_Witness ==
    \E s \in ConnSessions :
        /\ exit[s] = "read:NotFound"
        /\ Len(taken[s]) = 1
        /\ Len(written[s]) = 1
        /\ sent[s] = Len(as_bytes(taken[s][1])) + BUFFER_SIZE

\* The first reply is written and the buffer holds the next frame whole,
\* with bytes of a third behind it: they came in with the first.
C20_WitnessPipelined ==
    \E s \in ConnSessions :
        /\ pc[s] = "read"
        /\ Len(written[s]) = 1
        /\ FrameParse(buffer[s], 0).kind = "Ok"
        /\ FrameParse(buffer[s], 0).pos < Len(buffer[s])

(***************************************************************************)
(* The end of the stream (SpecConnTask).                                   *)
(***************************************************************************)
\* The session ended because read_buf yielded 0.
EndedByPeer(s) == exit[s] \in {"eof", "read:ConnectionReset"}

\* The session's task holds neither its permit nor its sender.
Released(s) == s \notin permit /\ s \notin closed_tx

C21_Exit ==
    \A s \in ConnSessions :
        /\ exit[s] = "none" => s \in permit /\ s \in closed_tx
        /\ EndedByPeer(s) =>
              /\ sent[s] = Len(stream[s])
              /\ Len(written[s]) = Len(taken[s])
        /\ exit[s] = "eof" => buffer[s] = <<>>
        /\ exit[s] = "read:ConnectionReset" =>
              /\ buffer[s] # <<>>
              /\ Len(buffer[s]) < BUFFER_SIZE
              /\ FrameParse(buffer[s], 0).kind = "NotFound"

C21_Step ==
    \A s \in ConnSessions :
        /\ (pc[s] = "await" /\ sent[s] = Len(stream[s]) /\ pc'[s] # pc[s]) =>
              /\ pc'[s] = "done"
              /\ \/ exit'[s] = "shutdown" /\ closing
                 \/ exit'[s] = "eof" /\ buffer[s] = <<>>
                 \/ exit'[s] = "read:ConnectionReset" /\ buffer[s] # <<>>
              /\ written'[s] = written[s]
              /\ taken'[s] = taken[s]
        /\ (exit[s] = "none" /\ EndedByPeer(s)') =>
              pc[s] = "await" /\ sent[s] = Len(stream[s])
        /\ EndedByPeer(s) =>
              /\ exit'[s] = exit[s]
              /\ sent'[s] = sent[s]
              /\ buffer'[s] = buffer[s]
              /\ written'[s] = written[s]
              /\ taken'[s] = taken[s]
              /\ pc'[s] \in {"done", "released", "ended"}

C21_Releases ==
    \A s \in ConnSessions :
        EndedByPeer(s) ~> (pc[s] = "ended" /\ Released(s))

\* C21: when read_buf yields 0 because the peer has closed, the session
\* ends: with handle returning Ok and no reply written when the buffer is
\* empty, with the connection-reset error when the buffer holds the bytes
\* of an incomplete frame.  After that the session reads, takes and writes
\* nothing more, and its task gives back its permit and drops its clone of
\* conn_closed_tx.
C21_PeerClosed ==
    []C21_Exit /\ [][C21_Step]_vars /\ C21_Releases

\* The peer closed in the middle of its third frame: two replies were
\* written, the session ended with the connection-reset error, and its task
\* has released the permit and the sender.
C21_Witness ==
    \E s \in ConnSessions :
        /\ exit[s] = "read:ConnectionReset"
        /\ buffer[s] # <<>>
        /\ Len(written[s]) = 2
        /\ pc[s] = "ended"
        /\ Released(s)
        /\ semaphore = MaxClients

\* The peer closed after its last frame was answered: the session ended
\* cleanly and its task has released the permit and the sender.
C21_WitnessClean ==
    \E s \in ConnSessions :
        /\ exit[s] = "eof"
        /\ Len(written[s]) = 2
        /\ pc[s] = "ended"
        /\ Released(s)

====
